---- MODULE Spec2Model ----
(***************************************************************************)
(* Model of the configuration loader (src/src/loader.ts).                  *)
(*                                                                         *)
(* The configuration tree is a JSON value.  The asynchronous walker is a   *)
(* table of tasks (one per invocation of an async function) driven by a    *)
(* synchronous call stack: while the stack is not empty only its top task  *)
(* runs, so the code between two awaits is atomic, as in a single-threaded *)
(* event loop.  Continuations that became ready wait in a FIFO queue and   *)
(* run when the stack is empty; a loadConfigFile promise may settle at any *)
(* such point, and this is where the interleavings come from.              *)
(***************************************************************************)
EXTENDS Integers, Sequences, FiniteSets, TLC

\* ------------------------------------------------------------------ bounds
\* at most this many loadConfigFile calls may reject in one run
MaxFail == 1
\* cap on the number of loadConfigFile calls of one run
MaxLoads == 8
\* the caller calls mergeConfiguration at most this many times
MaxCalls == 2

\* ------------------------------------------------------------- JSON values
Undef == [t |-> "undef"]
Null == [t |-> "null"]
Str(s) == [t |-> "str", s |-> s]
Arr(es) == [t |-> "arr", e |-> es]
Obj(es) == [t |-> "obj", e |-> es]
KV(k, v) == [k |-> k, v |-> v]

isObject(v) == v.t = "obj"
IsArray(v) == v.t = "arr"
Truthy(v) == /\ v.t \notin {"undef", "null"}
             /\ ~(v.t = "str" /\ v.s = "")

HasKey(o, k) == /\ o.t = "obj"
                /\ \E n \in 1..Len(o.e) : o.e[n].k = k
\* property read: a missing property reads as undefined
Get(o, k) == IF HasKey(o, k)
             THEN o.e[CHOOSE n \in 1..Len(o.e) : o.e[n].k = k].v
             ELSE Undef
\* property write: an existing key keeps its position, a new key is appended
Put(o, k, v) == IF HasKey(o, k)
                THEN Obj([n \in 1..Len(o.e) |-> IF o.e[n].k = k THEN KV(k, v) ELSE o.e[n]])
                ELSE Obj(Append(o.e, KV(k, v)))
Del(o, k) == Obj(SelectSeq(o.e, LAMBDA x : x.k # k))
Keys(o) == [n \in 1..Len(o.e) |-> o.e[n].k]

\* a location in the tree: a sequence of steps, a key K(k) or an index Ix(n)
K(k) == [k |-> k]
Ix(n) == [i |-> n]
IsKeyStep(h) == "k" \in DOMAIN h

\* one step down: v[k] or v[i]
Child(v, h) ==
  IF IsKeyStep(h) THEN Get(v, h.k)
  ELSE IF IsArray(v) /\ h.i \in 1..Len(v.e) THEN v.e[h.i]
  ELSE Undef

\* the value a chain of property reads yields (the child is bound as a value
\* before the walk goes on)
RECURSIVE GetAt(_, _)
GetAt(v, loc) ==
  IF loc = <<>> THEN v
  ELSE CHOOSE r \in {GetAt(c, Tail(loc)) : c \in {Child(v, Head(loc))}} : TRUE

\* the tree after an assignment through the reference at loc
RECURSIVE SetAt(_, _, _)
SetAt(v, loc, new) ==
  IF loc = <<>> THEN new
  ELSE CHOOSE r \in {IF IsKeyStep(Head(loc)) THEN Put(v, Head(loc).k, sub)
                     ELSE Arr([n \in 1..Len(v.e) |-> IF n = Head(loc).i THEN sub ELSE v.e[n]]) :
                       sub \in {SetAt(c, Tail(loc), new) : c \in {Child(v, Head(loc))}}} : TRUE

\* JSON.parse(JSON.stringify(v)): undefined properties are dropped, an
\* undefined array element becomes null, everything else is copied
RECURSIVE JsonClone(_)
JsonClone(v) ==
  IF v.t = "obj"
    THEN LET kept == SelectSeq(v.e, LAMBDA x : x.v.t # "undef")
         IN Obj([n \in 1..Len(kept) |-> KV(kept[n].k, JsonClone(kept[n].v))])
  ELSE IF v.t = "arr"
    THEN Arr([n \in 1..Len(v.e) |-> IF v.e[n].t = "undef" THEN Null ELSE JsonClone(v.e[n])])
  ELSE v

\* ------------------------------------------------------------ glob keys
\* types.ts GlobTypeKey
GlobTypeKey == {"_structures_from_glob", "values_from_glob", "_snippets_from_glob",
                "_snippets_imports_from_glob", "_snippets_templates_from_glob",
                "_snippets_definitions_from_glob", "_inputs_from_glob",
                "_editables_from_glob", "collections_config_from_glob",
                "schemas_from_glob"}

\* README "Supported Glob Keys": reference key -> target key
TargetOf == [k \in GlobTypeKey |->
  CASE k = "collections_config_from_glob" -> "collections_config"
    [] k = "schemas_from_glob" -> "schemas"
    [] k = "_inputs_from_glob" -> "_inputs"
    [] k = "_structures_from_glob" -> "_structures"
    [] k = "values_from_glob" -> "values"
    [] k = "_snippets_from_glob" -> "_snippets"
    [] k = "_snippets_imports_from_glob" -> "_snippets_imports"
    [] k = "_snippets_templates_from_glob" -> "_snippets_templates"
    [] k = "_snippets_definitions_from_glob" -> "_snippets_definitions"
    [] k = "_editables_from_glob" -> "_editables"]

\* ------------------------------------------------- files and glob patterns
Paths == {"a.yml", "b.yml", "c.yml"}
\* a.localeCompare(b) < 0 iff PathRank[a] < PathRank[b]
PathRank == [p \in Paths |-> CASE p = "a.yml" -> 1 [] p = "b.yml" -> 2 [] p = "c.yml" -> 3]

\* the pattern strings of the model: what each matches, and whether it
\* starts with '!'
startsWithBang(pat) == pat \in {"!a.yml", "!b.yml", "!c.yml"}
PatternMatches(pat) ==
  CASE pat = "*.yml" -> Paths
    [] pat = "a.yml" -> {"a.yml"}
    [] pat = "b.yml" -> {"b.yml"}
    [] pat = "c.yml" -> {"c.yml"}
    [] pat = "!a.yml" -> {"a.yml"}
    [] pat = "!b.yml" -> {"b.yml"}
    [] pat = "!c.yml" -> {"c.yml"}
    [] OTHER -> {}

\* the strings of a pattern list (non-string entries are ignored, and a
\* value that is no list has none)
GlobStrings(globs) ==
  LET strs == SelectSeq(IF IsArray(globs) THEN globs.e ELSE <<>>, LAMBDA x : x.t = "str")
  IN [n \in 1..Len(strs) |-> strs[n].s]

Range(s) == {s[n] : n \in 1..Len(s)}

\* findFilesMatchingGlobs of the caller (README example: glob with the
\* negations as ignore list); order is the order the collaborator lists files
GlobResolve(order, globs) ==
  LET pats == Range(GlobStrings(globs))
      pos == UNION {PatternMatches(q) : q \in {x \in pats : ~startsWithBang(x)}}
      neg == UNION {PatternMatches(q) : q \in {x \in pats : startsWithBang(x)}}
  IN SelectSeq(order, LAMBDA p : p \in pos /\ p \notin neg)

\* matchingFiles.sort((a, b) => a.localeCompare(b)): insertion sort, stable
RECURSIVE InsertSorted(_, _)
InsertSorted(s, p) ==
  IF s = <<>> THEN <<p>>
  ELSE IF PathRank[p] < PathRank[Head(s)] THEN <<p>> \o s
  ELSE <<Head(s)>> \o InsertSorted(Tail(s), p)

RECURSIVE SortedPrefix(_, _)
SortedPrefix(s, n) == IF n = 0 THEN <<>> ELSE InsertSorted(SortedPrefix(s, n - 1), s[n])

\* the files are taken in the order the collaborator returned them
SortPaths_unsorted(s) == s

SortPaths(s) == SortedPrefix(s, Len(s))


\* ------------------------------------------------------- merge functions
\* { ...value, __source__: source }
StampSource_keep(value, source) ==
  IF HasKey(value, "__source__") THEN value ELSE Put(value, "__source__", Str(source))
StampSource(value, source) == Put(value, "__source__", Str(source))

RECURSIVE MergeEntries(_, _, _)
MergeEntries(result, entries, source) ==
  IF entries = <<>> THEN result
  ELSE LET x == Head(entries)
       IN MergeEntries(Put(result, x.k, IF isObject(x.v) THEN StampSource(x.v, source) ELSE x.v),
                       Tail(entries), source)

\* base is the object config[targetKey] || {}
RECURSIVE mergeObjectValues(_, _)
mergeObjectValues(base, loaded) ==
  IF loaded = <<>> THEN base
  ELSE LET h == Head(loaded)
       IN mergeObjectValues(IF isObject(h.data) THEN MergeEntries(base, h.data.e, h.source) ELSE base,
                            Tail(loaded))

RECURSIVE PushElements(_, _, _)
PushElements(result, elems, source) ==
  IF elems = <<>> THEN result
  ELSE LET x == Head(elems)
       IN PushElements(Append(result, IF isObject(x) THEN StampSource(x, source) ELSE x),
                       Tail(elems), source)

\* base is the array config[targetKey] || []
RECURSIVE mergeArrayValues(_, _)
mergeArrayValues(base, loaded) ==
  IF loaded = <<>> THEN base
  ELSE LET h == Head(loaded)
       IN mergeArrayValues(
            Arr(IF IsArray(h.data) THEN PushElements(base.e, h.data.e, h.source)
                ELSE IF isObject(h.data) THEN Append(base.e, StampSource(h.data, h.source))
                ELSE Append(base.e, h.data)),
            Tail(loaded))

\* ------------------------------------------------------------ diagnostics
NoWarnings == [cycles |-> <<>>, multipleGlobKeys |-> <<>>, arrayValues |-> <<>>]

\* chain.join(' -> ')
RECURSIVE JoinChain(_)
JoinChain(chain) ==
  IF chain = <<>> THEN ""
  ELSE IF Len(chain) = 1 THEN chain[1]
  ELSE chain[1] \o " -> " \o JoinChain(Tail(chain))

SameCycle_pathOnly(w, x) == w.path = x.path
SameCycle(w, x) == w.path = x.path /\ JoinChain(w.chain) = JoinChain(x.chain)
SameMultiple(w, x) == w.path = x.path /\ w.type1 = x.type1 /\ w.type2 = x.type2
SameArrayValue(w, x) == w.path = x.path

RECURSIVE UniqueCycles(_, _)
UniqueCycles(ws, acc) ==
  IF ws = <<>> THEN acc
  ELSE UniqueCycles(Tail(ws),
         IF \E n \in 1..Len(acc) : SameCycle(acc[n], Head(ws)) THEN acc ELSE Append(acc, Head(ws)))

RECURSIVE UniqueMultiple(_, _)
UniqueMultiple(ws, acc) ==
  IF ws = <<>> THEN acc
  ELSE UniqueMultiple(Tail(ws),
         IF \E n \in 1..Len(acc) : SameMultiple(acc[n], Head(ws)) THEN acc ELSE Append(acc, Head(ws)))

RECURSIVE UniqueArrayValues(_, _)
UniqueArrayValues(ws, acc) ==
  IF ws = <<>> THEN acc
  ELSE UniqueArrayValues(Tail(ws),
         IF \E n \in 1..Len(acc) : SameArrayValue(acc[n], Head(ws)) THEN acc ELSE Append(acc, Head(ws)))

removeDuplicateWarnings(w) ==
  [cycles |-> UniqueCycles(w.cycles, <<>>),
   multipleGlobKeys |-> UniqueMultiple(w.multipleGlobKeys, <<>>),
   arrayValues |-> UniqueArrayValues(w.arrayValues, <<>>)]


\* ------------------------------------------------------------------ state
VARIABLES
  env,            \* the caller's input: base (the configuration), files (path ->
                  \* content), order (the order findFilesMatchingGlobs lists
                  \* files in), flaky (the paths loadConfigFile may fail on)
  earlier,        \* what the caller's earlier calls with this input returned
  mem,            \* the two configuration objects: the caller's and the copy
  cfgRef,         \* the object ConfigurationLoader.mergeConfiguration works on
  phase,          \* "init", "running", "done"
  tasks,          \* the pending invocations of async functions
  stack,          \* the synchronous call stack (top first)
  microq,         \* the continuations that are ready to run, first in first out
  visitedSets,    \* the Set<string> objects created for cycle detection
  warnings,       \* loader.warnings
  globPatterns,   \* loader.globPatterns (insertion order)
  pathsToGlobKey, \* loader.pathsToGlobKey
  globKeyToPaths, \* loader.globKeyToPaths
  result,         \* the GlobResult handed to the caller
  hist            \* history of collaborator calls, skips and merges

vars == <<env, earlier, mem, cfgRef, phase, tasks, stack, microq, visitedSets, warnings,
          globPatterns, pathsToGlobKey, globKeyToPaths, result, hist>>

loaderVars == <<visitedSets, warnings, globPatterns, pathsToGlobKey, globKeyToPaths>>

NoOwner == "none"

NewTask(fn, loc, globKey, targetKey, isArray, vis) ==
  [fn |-> fn, pc |-> "start", st |-> "run", pend |-> 0, kids |-> 0,
   loc |-> loc, globKey |-> globKey, targetKey |-> targetKey, isArray |-> isArray,
   vis |-> vis, visl |-> <<>>, items |-> <<>>, i |-> 1, items2 |-> <<>>, j |-> 1,
   s |-> 1, files |-> <<>>, loaded |-> <<>>]

ImportTask(loc, globKey, targetKey, isArray, vis) ==
  NewTask("importFromGlobKey", loc, globKey, targetKey, isArray, vis)
InputsTask(loc, vis) == NewTask("processInputsKey", loc, "", "", FALSE, vis)
StructuresTask(loc) == NewTask("processStructuresKey", loc, "", "", FALSE, <<>>)
StructureTask(loc) == NewTask("structure", loc, "", "", FALSE, <<>>)
ValueTask(loc, vis) == NewTask("processStructureValue", loc, "", "", FALSE, vis)

Top == Head(stack)
Me == tasks[Top]
Parent(t) == SubSeq(t, 1, Len(t) - 1)
Cfg == mem[cfgRef]
At(loc) == GetAt(Cfg, loc)

Running(fn, pc) ==
  /\ phase = "running"
  /\ stack # <<>>
  /\ Me.st = "run"
  /\ Me.fn = fn
  /\ Me.pc = pc

\* the running task goes on, with its record replaced by upd
Step(upd) ==
  /\ tasks' = [tasks EXCEPT ![Top] = upd]
  /\ stack' = stack
  /\ microq' = microq

\* the running task calls an async function: the callee runs at once, on top
Call(upd, child) ==
  LET id == Append(Top, Me.kids + 1)
  IN /\ tasks' = [x \in DOMAIN tasks \cup {id} |->
                    IF x = id THEN child
                    ELSE IF x = Top THEN [upd EXCEPT !.kids = @ + 1, !.pend = @ + 1]
                    ELSE tasks[x]]
     /\ stack' = <<id>> \o stack
     /\ microq' = microq

\* the running task returns: its promise resolves, and the continuation of
\* a caller that is suspended on it is queued
Return ==
  /\ tasks' = [x \in DOMAIN tasks \ {Top} |->
                 IF x = Parent(Top) THEN [tasks[x] EXCEPT !.pend = @ - 1] ELSE tasks[x]]
  /\ stack' = Tail(stack)
  /\ microq' = IF /\ Parent(Top) \in DOMAIN tasks
                  /\ Parent(Top) \notin Range(stack)
                  /\ tasks[Parent(Top)].st = "await"
                  /\ tasks[Parent(Top)].pend = 1
               THEN Append(microq, Parent(Top))
               ELSE microq

NoResult == [config |-> Undef, warnings |-> NoWarnings, globPatterns |-> <<>>,
             pathsToGlobKey |-> [p \in Paths |-> NoOwner],
             globKeyToPaths |-> [k \in GlobTypeKey |-> {}]]

\* number of loadConfigFile calls made, and of those that rejected
NumLoads == Cardinality({n \in 1..Len(hist) : hist[n].e = "claim"})
NumFailed == Cardinality({n \in 1..Len(hist) : hist[n].e = "load" /\ hist[n].out = "fail"})


\* --------------------------------------------- mergeConfiguration (export)
\* the loader is handed the caller's own object
CloneTarget_alias == "caller"

\* JSON.parse(JSON.stringify(config)) is a new object, not the caller's
CloneTarget == "work"

\* new ConfigurationLoader(...); loader.mergeConfiguration(copy of config)
mergeConfiguration ==
  /\ phase = "init"
  /\ phase' = "running"
  /\ cfgRef' = CloneTarget
  /\ mem' = [mem EXCEPT ![CloneTarget] = JsonClone(mem["caller"])]
  /\ tasks' = (<< 1 >> :> [NewTask("mergeConfiguration", <<>>, "", "", FALSE, <<>>)
                             EXCEPT !.st = "await", !.pc = "return", !.pend = 1, !.kids = 1])
              @@ (<< 1, 1 >> :> NewTask("loaderMerge", <<>>, "", "", FALSE, <<>>))
  /\ stack' = << << 1, 1 >>, << 1 >> >>
  /\ microq' = <<>>
  /\ UNCHANGED <<env, earlier, loaderVars, result, hist>>

\* return { config, warnings: removeDuplicateWarnings(...), ... }
mergeConfigurationReturn ==
  /\ Running("mergeConfiguration", "return")
  /\ result' = [config |-> Cfg,
                warnings |-> removeDuplicateWarnings(warnings),
                globPatterns |-> globPatterns,
                pathsToGlobKey |-> pathsToGlobKey,
                globKeyToPaths |-> globKeyToPaths]
  /\ phase' = "done"
  /\ tasks' = [x \in {} |-> Undef]
  /\ stack' = <<>>
  /\ microq' = <<>>
  /\ UNCHANGED <<env, earlier, mem, cfgRef, loaderVars, hist>>

\* the caller calls mergeConfiguration once more with the same config and
\* options: a new ConfigurationLoader, with state of its own, does the work
mergeConfigurationAgain ==
  /\ phase = "done"
  /\ Len(earlier) < MaxCalls - 1
  /\ earlier' = Append(earlier, [result |-> result, failed |-> NumFailed])
  /\ mem' = [caller |-> mem["caller"], work |-> Undef]
  /\ cfgRef' = "caller"
  /\ phase' = "init"
  /\ visitedSets' = [x \in {} |-> <<>>]
  /\ warnings' = NoWarnings
  /\ globPatterns' = <<>>
  /\ pathsToGlobKey' = [p \in Paths |-> NoOwner]
  /\ globKeyToPaths' = [k \in GlobTypeKey |-> {}]
  /\ result' = NoResult
  /\ hist' = <<>>
  /\ UNCHANGED <<env, tasks, stack, microq>>

\* ------------------------------- ConfigurationLoader.mergeConfiguration
\* the seven root-level importFromGlobKey calls, in the order of the code
RootCalls_inputsFirst == <<
  [globKey |-> "_inputs_from_glob", targetKey |-> "_inputs"],
  [globKey |-> "_snippets_from_glob", targetKey |-> "_snippets"],
  [globKey |-> "_snippets_imports_from_glob", targetKey |-> "_snippets_imports"],
  [globKey |-> "_snippets_templates_from_glob", targetKey |-> "_snippets_templates"],
  [globKey |-> "_snippets_definitions_from_glob", targetKey |-> "_snippets_definitions"],
  [globKey |-> "collections_config_from_glob", targetKey |-> "collections_config"],
  [globKey |-> "_structures_from_glob", targetKey |-> "_structures"] >>
RootCalls == <<
  [globKey |-> "_snippets_from_glob", targetKey |-> "_snippets"],
  [globKey |-> "_snippets_imports_from_glob", targetKey |-> "_snippets_imports"],
  [globKey |-> "_snippets_templates_from_glob", targetKey |-> "_snippets_templates"],
  [globKey |-> "_snippets_definitions_from_glob", targetKey |-> "_snippets_definitions"],
  [globKey |-> "collections_config_from_glob", targetKey |-> "collections_config"],
  [globKey |-> "_inputs_from_glob", targetKey |-> "_inputs"],
  [globKey |-> "_structures_from_glob", targetKey |-> "_structures"] >>

\* the four calls made for a collection, a schema and a snippet
ScopeCall(loc, n) ==
  CASE n = 1 -> ImportTask(loc, "_inputs_from_glob", "_inputs", FALSE, <<>>)
    [] n = 2 -> ImportTask(loc, "_structures_from_glob", "_structures", FALSE, <<>>)
    [] n = 3 -> InputsTask(Append(loc, K("_inputs")), <<>>)
    [] n = 4 -> StructuresTask(Append(loc, K("_structures")))

MC_Reset ==
  /\ Running("loaderMerge", "start")
  /\ warnings' = NoWarnings
  /\ globPatterns' = <<>>
  /\ Step([Me EXCEPT !.pc = "root", !.i = 1])
  /\ UNCHANGED <<env, earlier, mem, cfgRef, phase, visitedSets, pathsToGlobKey, globKeyToPaths, result, hist>>

MC_RootImport ==
  /\ Running("loaderMerge", "root")
  /\ LET c == RootCalls[Me.i]
     IN Call([Me EXCEPT !.st = "await", !.i = @ + 1,
                        !.pc = IF Me.i = Len(RootCalls) THEN "inputs" ELSE "root"],
             ImportTask(<<>>, c.globKey, c.targetKey, FALSE, <<>>))
  /\ UNCHANGED <<env, earlier, mem, cfgRef, phase, loaderVars, result, hist>>

MC_Inputs ==
  /\ Running("loaderMerge", "inputs")
  /\ Call([Me EXCEPT !.st = "await", !.pc = "structures"], InputsTask(<< K("_inputs") >>, <<>>))
  /\ UNCHANGED <<env, earlier, mem, cfgRef, phase, loaderVars, result, hist>>

MC_Structures ==
  /\ Running("loaderMerge", "structures")
  /\ Call([Me EXCEPT !.st = "await", !.pc = "collections"], StructuresTask(<< K("_structures") >>))
  /\ UNCHANGED <<env, earlier, mem, cfgRef, phase, loaderVars, result, hist>>

CollectionLoc(t) == << K("collections_config"), K(t.items[t.i]) >>
SchemaLoc(t) == CollectionLoc(t) \o << K("schemas"), K(t.items2[t.j]) >>
SnippetLoc(t) == << K("_snippets"), K(t.items[t.i]) >>

MC_Collections ==
  /\ Running("loaderMerge", "collections")
  /\ LET cc == At(<< K("collections_config") >>)
     IN IF Truthy(cc) /\ isObject(cc)
        THEN Step([Me EXCEPT !.pc = "coll", !.items = Keys(cc), !.i = 1])
        ELSE Step([Me EXCEPT !.pc = "snippets"])
  /\ UNCHANGED <<env, earlier, mem, cfgRef, phase, loaderVars, result, hist>>

MC_Collection ==
  /\ Running("loaderMerge", "coll")
  /\ IF Me.i > Len(Me.items) THEN Step([Me EXCEPT !.pc = "snippets"])
     ELSE LET c == At(CollectionLoc(Me))
          IN IF ~isObject(c) THEN Step([Me EXCEPT !.i = @ + 1])
             ELSE IF HasKey(c, "schemas_from_glob")
               THEN Call([Me EXCEPT !.st = "await", !.pc = "coll_scope", !.s = 1],
                         ImportTask(CollectionLoc(Me), "schemas_from_glob", "schemas", FALSE, <<>>))
               ELSE Step([Me EXCEPT !.pc = "coll_scope", !.s = 1])
  /\ UNCHANGED <<env, earlier, mem, cfgRef, phase, loaderVars, result, hist>>

MC_CollectionScope ==
  /\ Running("loaderMerge", "coll_scope")
  /\ Call([Me EXCEPT !.st = "await", !.s = @ + 1,
                     !.pc = IF Me.s = 4 THEN "coll_schemas" ELSE "coll_scope"],
          ScopeCall(CollectionLoc(Me), Me.s))
  /\ UNCHANGED <<env, earlier, mem, cfgRef, phase, loaderVars, result, hist>>

MC_Schemas ==
  /\ Running("loaderMerge", "coll_schemas")
  /\ LET sch == Get(At(CollectionLoc(Me)), "schemas")
     IN IF isObject(sch)
        THEN Step([Me EXCEPT !.pc = "schema", !.items2 = Keys(sch), !.j = 1])
        ELSE Step([Me EXCEPT !.pc = "coll", !.i = @ + 1])
  /\ UNCHANGED <<env, earlier, mem, cfgRef, phase, loaderVars, result, hist>>

MC_Schema ==
  /\ Running("loaderMerge", "schema")
  /\ IF Me.j > Len(Me.items2) THEN Step([Me EXCEPT !.pc = "coll", !.i = @ + 1])
     ELSE IF isObject(At(SchemaLoc(Me))) THEN Step([Me EXCEPT !.pc = "schema_scope", !.s = 1])
     ELSE Step([Me EXCEPT !.j = @ + 1])
  /\ UNCHANGED <<env, earlier, mem, cfgRef, phase, loaderVars, result, hist>>

MC_SchemaScope ==
  /\ Running("loaderMerge", "schema_scope")
  /\ Call([Me EXCEPT !.st = "await", !.s = @ + 1,
                     !.pc = IF Me.s = 4 THEN "schema" ELSE "schema_scope",
                     !.j = IF Me.s = 4 THEN @ + 1 ELSE @],
          ScopeCall(SchemaLoc(Me), Me.s))
  /\ UNCHANGED <<env, earlier, mem, cfgRef, phase, loaderVars, result, hist>>

MC_Snippets ==
  /\ Running("loaderMerge", "snippets")
  /\ LET sn == At(<< K("_snippets") >>)
     IN IF Truthy(sn) /\ isObject(sn)
        THEN Call([Me EXCEPT !.st = "await", !.pc = "snip_list"],
                  ImportTask(<< K("_snippets") >>, "_inputs_from_glob", "_inputs", FALSE, <<>>))
        ELSE Step([Me EXCEPT !.pc = "return"])
  /\ UNCHANGED <<env, earlier, mem, cfgRef, phase, loaderVars, result, hist>>

MC_SnippetList ==
  /\ Running("loaderMerge", "snip_list")
  /\ Step([Me EXCEPT !.pc = "snip", !.items = Keys(At(<< K("_snippets") >>)), !.i = 1])
  /\ UNCHANGED <<env, earlier, mem, cfgRef, phase, loaderVars, result, hist>>

MC_Snippet ==
  /\ Running("loaderMerge", "snip")
  /\ IF Me.i > Len(Me.items) THEN Step([Me EXCEPT !.pc = "return"])
     ELSE IF isObject(At(SnippetLoc(Me))) THEN Step([Me EXCEPT !.pc = "snip_scope", !.s = 1])
     ELSE Step([Me EXCEPT !.i = @ + 1])
  /\ UNCHANGED <<env, earlier, mem, cfgRef, phase, loaderVars, result, hist>>

MC_SnippetScope ==
  /\ Running("loaderMerge", "snip_scope")
  /\ Call([Me EXCEPT !.st = "await", !.s = @ + 1,
                     !.pc = IF Me.s = 4 THEN "snip" ELSE "snip_scope",
                     !.i = IF Me.s = 4 THEN @ + 1 ELSE @],
          ScopeCall(SnippetLoc(Me), Me.s))
  /\ UNCHANGED <<env, earlier, mem, cfgRef, phase, loaderVars, result, hist>>

MC_Return ==
  /\ Running("loaderMerge", "return")
  /\ Return
  /\ UNCHANGED <<env, earlier, mem, cfgRef, phase, loaderVars, result, hist>>


\* ------------------------------------------------------- processInputsKey
InputLoc(t) == Append(t.loc, K(t.items[t.i]))
InputStructuresLoc(t) == InputLoc(t) \o << K("options"), K("structures") >>

PIK_Start ==
  /\ Running("processInputsKey", "start")
  /\ LET inputs == At(Me.loc)
     IN IF Truthy(inputs) /\ isObject(inputs)
        THEN Step([Me EXCEPT !.pc = "input", !.items = Keys(inputs), !.i = 1])
        ELSE Return
  /\ UNCHANGED <<env, earlier, mem, cfgRef, phase, loaderVars, result, hist>>

\* one iteration of the for loop, up to the first await
PIK_Input ==
  /\ Running("processInputsKey", "input")
  /\ IF Me.i > Len(Me.items) THEN Return /\ UNCHANGED visitedSets
     ELSE LET inputValue == At(InputLoc(Me))
              options == Get(inputValue, "options")
              structures == Get(options, "structures")
              fresh == Append(Top, Me.i)
              visitedLocal == IF Me.vis # <<>> THEN Me.vis ELSE fresh
          IN IF isObject(inputValue) /\ isObject(options)
             THEN /\ visitedSets' = IF Me.vis # <<>> THEN visitedSets
                                    ELSE (fresh :> <<>>) @@ visitedSets
                  /\ IF Truthy(structures) /\ isObject(structures)
                     THEN IF Truthy(Get(structures, "values_from_glob"))
                          THEN Call([Me EXCEPT !.st = "await", !.pc = "values", !.visl = visitedLocal],
                                    ImportTask(InputStructuresLoc(Me), "values_from_glob", "values",
                                               TRUE, visitedLocal))
                          ELSE Step([Me EXCEPT !.pc = "values", !.visl = visitedLocal])
                     ELSE Step([Me EXCEPT !.i = @ + 1])
             ELSE Step([Me EXCEPT !.i = @ + 1]) /\ UNCHANGED visitedSets
  /\ UNCHANGED <<env, earlier, mem, cfgRef, phase, warnings, globPatterns, pathsToGlobKey,
                 globKeyToPaths, result, hist>>

PIK_Values ==
  /\ Running("processInputsKey", "values")
  /\ LET values == Get(At(InputStructuresLoc(Me)), "values")
     IN IF IsArray(values)
        THEN Step([Me EXCEPT !.pc = "spawn", !.items2 = [n \in 1..Len(values.e) |-> n], !.j = 1])
        ELSE Step([Me EXCEPT !.pc = "input", !.i = @ + 1])
  /\ UNCHANGED <<env, earlier, mem, cfgRef, phase, loaderVars, result, hist>>

\* structures.values.map(async (value) => this.processStructureValue(...))
PIK_SpawnValue ==
  /\ Running("processInputsKey", "spawn")
  /\ Me.j <= Len(Me.items2)
  /\ Call([Me EXCEPT !.j = @ + 1],
          ValueTask(InputStructuresLoc(Me) \o << K("values"), Ix(Me.j) >>, Me.visl))
  /\ UNCHANGED <<env, earlier, mem, cfgRef, phase, loaderVars, result, hist>>

\* await Promise.all(...)
PIK_AwaitValues ==
  /\ Running("processInputsKey", "spawn")
  /\ Me.j > Len(Me.items2)
  /\ Step([Me EXCEPT !.st = "await", !.pc = "input", !.i = @ + 1])
  /\ UNCHANGED <<env, earlier, mem, cfgRef, phase, loaderVars, result, hist>>

\* --------------------------------------------------- processStructuresKey
PSK_Start ==
  /\ Running("processStructuresKey", "start")
  /\ LET structures == At(Me.loc)
     IN IF ~Truthy(structures) \/ ~isObject(structures)
        THEN Return
        ELSE Step([Me EXCEPT !.pc = "spawn", !.items = Keys(structures), !.i = 1])
  /\ UNCHANGED <<env, earlier, mem, cfgRef, phase, loaderVars, result, hist>>

\* Object.values(structures).map(async (structure) => ...)
PSK_SpawnStructure ==
  /\ Running("processStructuresKey", "spawn")
  /\ Me.i <= Len(Me.items)
  /\ Call([Me EXCEPT !.i = @ + 1], StructureTask(Append(Me.loc, K(Me.items[Me.i]))))
  /\ UNCHANGED <<env, earlier, mem, cfgRef, phase, loaderVars, result, hist>>

PSK_AwaitStructures ==
  /\ Running("processStructuresKey", "spawn")
  /\ Me.i > Len(Me.items)
  /\ Step([Me EXCEPT !.st = "await", !.pc = "return"])
  /\ UNCHANGED <<env, earlier, mem, cfgRef, phase, loaderVars, result, hist>>

PSK_Return ==
  /\ Running("processStructuresKey", "return")
  /\ Return
  /\ UNCHANGED <<env, earlier, mem, cfgRef, phase, loaderVars, result, hist>>

\* the callback run for one structure
STR_Start_sharedSet ==
  /\ Running("structure", "start")
  /\ IF ~isObject(At(Me.loc)) THEN Return /\ UNCHANGED visitedSets
     ELSE /\ visitedSets' = IF Parent(Top) \in DOMAIN visitedSets THEN visitedSets
                            ELSE (Parent(Top) :> <<>>) @@ visitedSets
          /\ Call([Me EXCEPT !.st = "await", !.pc = "values", !.visl = Parent(Top)],
                  ImportTask(Me.loc, "values_from_glob", "values", TRUE, Parent(Top)))
  /\ UNCHANGED <<env, earlier, mem, cfgRef, phase, warnings, globPatterns, pathsToGlobKey,
                 globKeyToPaths, result, hist>>
STR_Start ==
  /\ Running("structure", "start")
  /\ IF ~isObject(At(Me.loc)) THEN Return /\ UNCHANGED visitedSets
     ELSE /\ visitedSets' = (Top :> <<>>) @@ visitedSets
          /\ Call([Me EXCEPT !.st = "await", !.pc = "values", !.visl = Top],
                  ImportTask(Me.loc, "values_from_glob", "values", TRUE, Top))
  /\ UNCHANGED <<env, earlier, mem, cfgRef, phase, warnings, globPatterns, pathsToGlobKey,
                 globKeyToPaths, result, hist>>

STR_Values ==
  /\ Running("structure", "values")
  /\ LET values == Get(At(Me.loc), "values")
     IN IF Truthy(values) /\ IsArray(values)
        THEN Step([Me EXCEPT !.pc = "spawn", !.items2 = [n \in 1..Len(values.e) |-> n], !.j = 1])
        ELSE Return
  /\ UNCHANGED <<env, earlier, mem, cfgRef, phase, loaderVars, result, hist>>

STR_SpawnValue ==
  /\ Running("structure", "spawn")
  /\ Me.j <= Len(Me.items2)
  /\ Call([Me EXCEPT !.j = @ + 1], ValueTask(Me.loc \o << K("values"), Ix(Me.j) >>, Me.visl))
  /\ UNCHANGED <<env, earlier, mem, cfgRef, phase, loaderVars, result, hist>>

STR_AwaitValues ==
  /\ Running("structure", "spawn")
  /\ Me.j > Len(Me.items2)
  /\ Step([Me EXCEPT !.st = "await", !.pc = "return"])
  /\ UNCHANGED <<env, earlier, mem, cfgRef, phase, loaderVars, result, hist>>

STR_Return ==
  /\ Running("structure", "return")
  /\ Return
  /\ UNCHANGED <<env, earlier, mem, cfgRef, phase, loaderVars, result, hist>>

\* -------------------------------------------------- processStructureValue
PSV_Start ==
  /\ Running("processStructureValue", "start")
  /\ LET structureValue == At(Me.loc)
     IN IF ~Truthy(structureValue) \/ ~isObject(structureValue) THEN Return
        ELSE IF Truthy(Get(structureValue, "_inputs_from_glob"))
          THEN Call([Me EXCEPT !.st = "await", !.pc = "inputs"],
                    ImportTask(Me.loc, "_inputs_from_glob", "_inputs", FALSE, Me.vis))
          ELSE Step([Me EXCEPT !.pc = "inputs"])
  /\ UNCHANGED <<env, earlier, mem, cfgRef, phase, loaderVars, result, hist>>

PSV_Inputs ==
  /\ Running("processStructureValue", "inputs")
  /\ IF Truthy(Get(At(Me.loc), "_inputs"))
     THEN Call([Me EXCEPT !.st = "await", !.pc = "return"],
               InputsTask(Append(Me.loc, K("_inputs")), Me.vis))
     ELSE Return
  /\ UNCHANGED <<env, earlier, mem, cfgRef, phase, loaderVars, result, hist>>

PSV_Return ==
  /\ Running("processStructureValue", "return")
  /\ Return
  /\ UNCHANGED <<env, earlier, mem, cfgRef, phase, loaderVars, result, hist>>


\* ------------------------------- importFromGlobKey and loadFilesFromGlobs
RECURSIVE AddPatterns(_, _)
AddPatterns(set, pats) ==
  IF pats = <<>> THEN set
  ELSE AddPatterns(IF ~startsWithBang(Head(pats)) /\ Head(pats) \notin Range(set)
                   THEN Append(set, Head(pats)) ELSE set,
                   Tail(pats))

\* only the patterns that do not start with '!' reach the collaborator
PassedGlobs_positive(globs) ==
  Arr(SelectSeq(globs.e, LAMBDA x : ~(x.t = "str" /\ startsWithBang(x.s))))

\* the argument of findFilesMatchingGlobs: the list read from config[globKey]
PassedGlobs(globs) == globs

\* a key that is absent is resolved like an empty list
NoPatternList_never(globs) == FALSE

\* if (!Array.isArray(globs)) return
NoPatternList(globs) == ~IsArray(globs)

\* importFromGlobKey up to the loop of loadFilesFromGlobs
IFG_Start ==
  /\ Running("importFromGlobKey", "start")
  /\ LET globs == Get(At(Me.loc), Me.globKey)
     IN IF NoPatternList(globs)
        THEN Return /\ UNCHANGED <<globPatterns, hist>>
        ELSE LET found == GlobResolve(env.order, PassedGlobs(globs))
                 matchingFiles == SortPaths(found)
             IN /\ globPatterns' = AddPatterns(globPatterns, GlobStrings(globs))
                /\ hist' = Append(hist, [e |-> "glob", key |-> Me.globKey, loc |-> Me.loc,
                                         globs |-> GlobStrings(globs), raw |-> globs,
                                         passed |-> PassedGlobs(globs), found |-> found,
                                         files |-> matchingFiles])
                /\ Step([Me EXCEPT !.pc = "file", !.files = matchingFiles, !.loaded = <<>>, !.i = 1])
  /\ UNCHANGED <<env, earlier, mem, cfgRef, phase, visitedSets, warnings, pathsToGlobKey,
                 globKeyToPaths, result>>

AtFile == /\ Running("importFromGlobKey", "file")
          /\ Me.i <= Len(Me.files)
FilePath == Me.files[Me.i]
\* the cycle check is missing
InVisited_never == FALSE

InVisited == Me.vis # <<>> /\ FilePath \in Range(visitedSets[Me.vis])
\* existingGlobKey === globKey
SameKey_never(existingGlobKey) == FALSE
SameKey(existingGlobKey) == existingGlobKey = Me.globKey

\* the ownership check is missing
OwnedByOther_never == FALSE

OwnedByOther == pathsToGlobKey[FilePath] # NoOwner /\ ~SameKey(pathsToGlobKey[FilePath])

\* visited?.has(filePath): record a cycle and skip the file
LFG_Cycle ==
  /\ AtFile
  /\ InVisited
  /\ warnings' = [warnings EXCEPT !.cycles =
                    Append(@, [path |-> FilePath, chain |-> visitedSets[Me.vis]])]
  /\ hist' = Append(hist, [e |-> "cycle", path |-> FilePath, key |-> Me.globKey, loc |-> Me.loc,
                           chain |-> visitedSets[Me.vis], owner |-> pathsToGlobKey[FilePath]])
  /\ Step([Me EXCEPT !.i = @ + 1])
  /\ UNCHANGED <<env, earlier, mem, cfgRef, phase, visitedSets, globPatterns, pathsToGlobKey,
                 globKeyToPaths, result>>

\* the file belongs to another glob key: record it and skip the file
LFG_Conflict_registers ==
  /\ AtFile
  /\ ~InVisited
  /\ OwnedByOther
  /\ warnings' = [warnings EXCEPT !.multipleGlobKeys =
                    Append(@, [path |-> FilePath, type1 |-> pathsToGlobKey[FilePath],
                               type2 |-> Me.globKey])]
  /\ globKeyToPaths' = [globKeyToPaths EXCEPT ![Me.globKey] = @ \cup {FilePath}]
  /\ hist' = Append(hist, [e |-> "conflict", path |-> FilePath, key |-> Me.globKey,
                           loc |-> Me.loc, owner |-> pathsToGlobKey[FilePath],
                           chain |-> IF Me.vis # <<>> THEN visitedSets[Me.vis] ELSE <<>>])
  /\ Step([Me EXCEPT !.i = @ + 1])
  /\ UNCHANGED <<env, earlier, mem, cfgRef, phase, visitedSets, globPatterns, pathsToGlobKey,
                 result>>
LFG_Conflict ==
  /\ AtFile
  /\ ~InVisited
  /\ OwnedByOther
  /\ warnings' = [warnings EXCEPT !.multipleGlobKeys =
                    Append(@, [path |-> FilePath, type1 |-> pathsToGlobKey[FilePath],
                               type2 |-> Me.globKey])]
  /\ hist' = Append(hist, [e |-> "conflict", path |-> FilePath, key |-> Me.globKey,
                           loc |-> Me.loc, owner |-> pathsToGlobKey[FilePath],
                           chain |-> IF Me.vis # <<>> THEN visitedSets[Me.vis] ELSE <<>>])
  /\ Step([Me EXCEPT !.i = @ + 1])
  /\ UNCHANGED <<env, earlier, mem, cfgRef, phase, visitedSets, globPatterns, pathsToGlobKey,
                 globKeyToPaths, result>>

\* claim the file and call loadConfigFile
LFG_Claim ==
  /\ AtFile
  /\ ~InVisited
  /\ ~OwnedByOther
  /\ NumLoads < MaxLoads
  /\ pathsToGlobKey' = [pathsToGlobKey EXCEPT ![FilePath] = Me.globKey]
  /\ globKeyToPaths' = [globKeyToPaths EXCEPT ![Me.globKey] = @ \cup {FilePath}]
  /\ visitedSets' = IF Me.vis # <<>>
                    THEN [visitedSets EXCEPT ![Me.vis] = Append(@, FilePath)]
                    ELSE visitedSets
  /\ hist' = Append(hist, [e |-> "claim", path |-> FilePath, key |-> Me.globKey, loc |-> Me.loc,
                           chain |-> IF Me.vis # <<>> THEN visitedSets[Me.vis] ELSE <<>>])
  /\ Step([Me EXCEPT !.st = "load"])
  /\ UNCHANGED <<env, earlier, mem, cfgRef, phase, warnings, globPatterns, result>>

\* return loadedData, awaited by importFromGlobKey
LFG_Return ==
  /\ Running("importFromGlobKey", "file")
  /\ Me.i > Len(Me.files)
  /\ Step([Me EXCEPT !.st = "await", !.pc = "merge"])
  /\ UNCHANGED <<env, earlier, mem, cfgRef, phase, loaderVars, result, hist>>

\* an array is taken for a fragment like any other value
LoadOutcome_noArrayCheck(data) ==
  IF data.t \in {"undef", "null"} THEN "null" ELSE "ok"

\* what the loop does with the value loadConfigFile resolved to
LoadOutcome(data) ==
  IF data.t \in {"undef", "null"} THEN "null"
  ELSE IF IsArray(JsonClone(data)) THEN "array"
  ELSE "ok"

\* the promise of loadConfigFile resolves: the continuation is queued
LoadResolves(t) ==
  /\ phase = "running"
  /\ stack = <<>>
  /\ tasks[t].st = "load"
  /\ tasks' = [tasks EXCEPT ![t] = [@ EXCEPT !.st = "await", !.pc = "loaded"]]
  /\ microq' = Append(microq, t)
  /\ UNCHANGED <<env, earlier, mem, cfgRef, phase, stack, loaderVars, result, hist>>

\* the promise of loadConfigFile rejects: the continuation is queued
LoadRejects(t) ==
  /\ phase = "running"
  /\ stack = <<>>
  /\ tasks[t].st = "load"
  /\ tasks[t].files[tasks[t].i] \in env.flaky
  /\ NumFailed < MaxFail
  /\ tasks' = [tasks EXCEPT ![t] = [@ EXCEPT !.st = "await", !.pc = "caught"]]
  /\ microq' = Append(microq, t)
  /\ hist' = Append(hist, [e |-> "load", path |-> tasks[t].files[tasks[t].i],
                           key |-> tasks[t].globKey, loc |-> tasks[t].loc, out |-> "fail"])
  /\ UNCHANGED <<env, earlier, mem, cfgRef, phase, stack, loaderVars, result>>

\* the rest of the try block, after await this.loadConfigFile(filePath)
LFG_Loaded ==
  /\ Running("importFromGlobKey", "loaded")
  /\ LET data == env.files[FilePath]
         out == LoadOutcome(data)
     IN /\ warnings' = IF out = "array"
                       THEN [warnings EXCEPT !.arrayValues = Append(@, [path |-> FilePath])]
                       ELSE warnings
        /\ Step([Me EXCEPT !.pc = "file", !.i = @ + 1,
                           !.loaded = IF out = "ok"
                                      THEN Append(@, [data |-> JsonClone(data), source |-> FilePath])
                                      ELSE @])
        /\ hist' = Append(hist, [e |-> "load", path |-> FilePath, key |-> Me.globKey,
                                 loc |-> Me.loc, out |-> out])
  /\ UNCHANGED <<env, earlier, mem, cfgRef, phase, visitedSets, globPatterns, pathsToGlobKey,
                 globKeyToPaths, result>>

\* the failure ends the loop over the files
Caught_abort(t) == [t EXCEPT !.pc = "file", !.i = Len(t.files) + 1]

\* the empty catch block: the frame after it
Caught(t) == [t EXCEPT !.pc = "file", !.i = @ + 1]

\* catch { }: the loop goes on with the next file
LFG_Caught ==
  /\ Running("importFromGlobKey", "caught")
  /\ Step(Caught(Me))
  /\ UNCHANGED <<env, earlier, mem, cfgRef, phase, loaderVars, result, hist>>

\* config[targetKey] = merge...(config[targetKey] || ..., loaded); delete config[globKey]
IFG_Merge ==
  /\ Running("importFromGlobKey", "merge")
  /\ LET config == At(Me.loc)
         old == Get(config, Me.targetKey)
         base == IF Truthy(old) THEN old ELSE IF Me.isArray THEN Arr(<<>>) ELSE Obj(<<>>)
         merged == IF Me.isArray THEN mergeArrayValues(base, Me.loaded)
                   ELSE mergeObjectValues(base, Me.loaded)
         after == Del(Put(config, Me.targetKey, merged), Me.globKey)
     IN /\ mem' = [mem EXCEPT ![cfgRef] = SetAt(@, Me.loc, after)]
        /\ hist' = Append(hist, [e |-> "merge", key |-> Me.globKey, loc |-> Me.loc,
                                 target |-> Me.targetKey, isArray |-> Me.isArray,
                                 files |-> Me.files, loaded |-> Me.loaded,
                                 old |-> old, merged |-> merged])
  /\ Return
  /\ UNCHANGED <<env, earlier, cfgRef, phase, loaderVars, result>>

\* ------------------------------------------------------------- event loop
\* the running task reached an await: it leaves the call stack; when what it
\* awaits has resolved already, its continuation is queued
Await ==
  /\ phase = "running"
  /\ stack # <<>>
  /\ Me.st # "run"
  /\ stack' = Tail(stack)
  /\ microq' = IF Me.st = "await" /\ Me.pend = 0 THEN Append(microq, Top) ELSE microq
  /\ UNCHANGED <<env, earlier, mem, cfgRef, phase, tasks, loaderVars, result, hist>>

\* the call stack is empty: the first queued continuation runs
Resume ==
  /\ phase = "running"
  /\ stack = <<>>
  /\ microq # <<>>
  /\ tasks' = [tasks EXCEPT ![Head(microq)] = [@ EXCEPT !.st = "run"]]
  /\ stack' = << Head(microq) >>
  /\ microq' = Tail(microq)
  /\ UNCHANGED <<env, earlier, mem, cfgRef, phase, loaderVars, result, hist>>

\* ------------------------------------------------------------- scenarios
\* The configurations, files and collaborators the runs start from.
G(pats) == Arr([n \in 1..Len(pats) |-> Str(pats[n])])
O1(k, v) == Obj(<< KV(k, v) >>)

\* the text a file carries, to recognise its content in the merged tree
Mark(p) == Str("content of " \o p)

\* file contents, p being the path of the file; Stale is a provenance field
\* the file itself carries
Stale == KV("__source__", Str("stale"))
Plain(p) == Obj(<< Stale, KV("label", Mark(p)) >>)
Coll(p) == O1("posts", Obj(<< Stale, KV("path", Mark(p)) >>))
Prim(p) == O1("posts", Mark(p))
ArrFile(p) == Arr(<< Coll(p) >>)
InputsFile(pats) == O1("nested", O1("options", O1("structures", O1("values_from_glob", G(pats)))))
Nested(p, pats) == Obj(<< KV("label", Mark(p)), KV("_inputs", InputsFile(pats)) >>)
ViaInputs(p, pats) == Obj(<< KV("label", Mark(p)), KV("_inputs_from_glob", G(pats)) >>)

Orders == {o \in [1..3 -> Paths] : \A m, n \in 1..3 : m # n => o[m] # o[n]}
Ascending == << "a.yml", "b.yml", "c.yml" >>
Descending == << "c.yml", "b.yml", "a.yml" >>

Files(a, b, c) == [p \in Paths |-> CASE p = "a.yml" -> a [] p = "b.yml" -> b [] p = "c.yml" -> c]

\* root-level reference keys, with and without a base for the target
RootBases == {
  Obj(<< KV("collections_config", O1("posts", Obj(<< KV("path", Str("base")), KV("keep", Str("base")) >>))),
         KV("collections_config_from_glob", G(<< "*.yml", "!c.yml" >>)),
         KV("_inputs_from_glob", G(<< "a.yml" >>)) >>),
  Obj(<< KV("collections_config_from_glob", G(<< "a.yml", "b.yml" >>)),
         KV("_editables_from_glob", G(<< "c.yml" >>)),
         KV("_structures_from_glob", G(<< "b.yml", "c.yml" >>)) >>),
  Obj(<< KV("_snippets_from_glob", G(<< "a.yml" >>)),
         KV("_snippets_imports_from_glob", G(<< "b.yml" >>)),
         KV("_snippets_templates_from_glob", G(<< "*.yml" >>)),
         KV("_snippets_definitions_from_glob", G(<< "*.yml", "!a.yml", "!b.yml" >>)),
         KV("_inputs_from_glob", G(<< "c.yml" >>)),
         KV("_inputs", O1("title", Obj(<< KV("type", Str("text")),
                                          KV("options", O1("structures",
                                             O1("values_from_glob", G(<< "c.yml" >>)))) >>))) >>) }

RootScenarios ==
  { [base |-> b, files |-> Files(fa, fb, Plain("c.yml")), order |-> o, flaky |-> Paths] :
      b \in RootBases,
      fa \in {Coll("a.yml"), ArrFile("a.yml")},
      fb \in {Coll("b.yml"), Prim("b.yml"), Undef},
      o \in Orders }

\* structures whose values come from files that refer to further files
PairBase ==
  O1("_structures", O1("blocks", Obj(<< KV("values", Arr(<< O1("label", Str("base")) >>)),
                                        KV("values_from_glob", G(<< "a.yml", "b.yml" >>)) >>)))
SingleBase == O1("_structures", O1("blocks", O1("values_from_glob", G(<< "a.yml" >>))))
InputsBase ==
  O1("_inputs", Obj(<< KV("first", O1("options", O1("structures", O1("values_from_glob", G(<< "a.yml" >>))))),
                       KV("second", O1("options", O1("structures",
                                       O1("values_from_glob", G(<< "*.yml", "!b.yml", "a.yml" >>))))) >>))
StructureBases == {PairBase, SingleBase, InputsBase}

StructureScenarios ==
  { [base |-> b, files |-> Files(fa, fb, fc), order |-> o, flaky |-> {"a.yml"}] :
      b \in StructureBases,
      fa \in {Plain("a.yml"), Nested("a.yml", << "a.yml", "b.yml" >>), Nested("a.yml", << "b.yml" >>),
              ViaInputs("a.yml", << "a.yml" >>), ViaInputs("a.yml", << "c.yml" >>), ArrFile("a.yml")},
      fb \in {Plain("b.yml"), Nested("b.yml", << "a.yml" >>)},
      fc \in {Plain("c.yml"), InputsFile(<< "b.yml" >>)},
      o \in {Ascending, Descending} }

\* two structures, expanded concurrently
SiblingBases == {
  O1("_structures", Obj(<< KV("blocks", Obj(<< KV("values", Arr(<< O1("label", Str("base")) >>)),
                                               KV("values_from_glob", G(<< "a.yml" >>)) >>)),
                           KV("other", O1("values_from_glob", G(<< "a.yml", "c.yml" >>))) >>)),
  O1("_structures", Obj(<< KV("blocks", O1("values_from_glob", G(<< "a.yml" >>))),
                           KV("other", O1("values_from_glob", G(<< "b.yml" >>))) >>)) }

SiblingScenarios ==
  { [base |-> b, files |-> Files(fa, fb, Plain("c.yml")), order |-> o, flaky |-> {}] :
      b \in SiblingBases,
      fa \in {Plain("a.yml"), ViaInputs("a.yml", << "c.yml" >>), Nested("a.yml", << "b.yml" >>)},
      fb \in {Plain("b.yml"), Nested("b.yml", << "c.yml" >>)},
      o \in {Ascending, Descending} }

\* collections, schemas and snippets, in the base and in fragments
CollectionBases == {
  Obj(<< KV("collections_config_from_glob", G(<< "a.yml" >>)),
         KV("collections_config", Obj(<< KV("pages", Obj(<< KV("path", Str("pages")),
                                                           KV("_inputs_from_glob", G(<< "c.yml" >>)) >>)),
                                         KV("broken", Str("pages")) >>)),
         KV("_snippets", Obj(<< KV("_inputs_from_glob", G(<< "*.yml" >>)),
                                KV("snip", O1("_structures_from_glob", G(<< "c.yml" >>))),
                                KV("note", Str("snip")) >>)) >>) }

CollectionFile(p) ==
  O1("posts", Obj(<< KV("path", Mark(p)),
                     KV("schemas", O1("old", Str("schema"))),
                     KV("schemas_from_glob", G(<< "b.yml" >>)),
                     KV("_structures_from_glob", G(<< "b.yml", "c.yml" >>)) >>))
SchemaFile(p) ==
  O1("default", Obj(<< KV("path", Mark(p)), KV("_inputs_from_glob", G(<< "c.yml" >>)) >>))

CollectionScenarios ==
  { [base |-> b, files |-> Files(CollectionFile("a.yml"), SchemaFile("b.yml"), fc), order |-> o,
     flaky |-> {"c.yml"}] :
      b \in CollectionBases,
      fc \in {InputsFile(<< "a.yml" >>), Plain("c.yml")},
      o \in {Ascending, Descending} }

\* configurations without any reference key; the second has a property
\* whose value is undefined and a list with an undefined element
PlainBases == {
  Obj(<< KV("collections_config",
            O1("posts", Obj(<< KV("path", Str("base")),
                               KV("schemas", O1("default", O1("path", Str("base")))) >>))),
         KV("_inputs", O1("title", O1("options", O1("structures",
                          O1("values", Arr(<< O1("label", Str("base")) >>)))))),
         KV("_structures", O1("blocks", O1("values", Arr(<<
            Obj(<< KV("label", Str("base")),
                   KV("_inputs", O1("nested", O1("options", O1("structures",
                                    O1("values", Arr(<< O1("label", Str("inner")) >>)))))) >>) >>)))),
         KV("_snippets", O1("snip", O1("note", Str("base")))) >>),
  Obj(<< KV("_inputs", Undef),
         KV("_structures", O1("blocks", O1("values", Arr(<< Undef, O1("label", Str("base")) >>)))) >>) }

PlainScenarios ==
  { [base |-> b, files |-> Files(Plain("a.yml"), Plain("b.yml"), Plain("c.yml")),
     order |-> Ascending, flaky |-> {}] : b \in PlainBases }

Scenarios == RootScenarios \cup StructureScenarios \cup SiblingScenarios \cup CollectionScenarios
             \cup PlainScenarios

\* ---------------------------------------------------------- specification
\* files that refer to themselves and to each other, and the collection walk
CyclicScenarios ==
  { [base |-> b, files |-> Files(fa, Nested("b.yml", << "a.yml" >>), Plain("c.yml")),
     order |-> Ascending, flaky |-> {}] :
      b \in {SingleBase, InputsBase},
      fa \in {Nested("a.yml", << "a.yml" >>), Nested("a.yml", << "b.yml" >>),
              ViaInputs("a.yml", << "a.yml" >>)} }
  \cup CollectionScenarios

InitWith(scenarios) ==
  /\ env \in scenarios
  /\ earlier = <<>>
  /\ mem = [caller |-> env.base, work |-> Undef]
  /\ cfgRef = "caller"
  /\ phase = "init"
  /\ tasks = [x \in {} |-> Undef]
  /\ stack = <<>>
  /\ microq = <<>>
  /\ visitedSets = [x \in {} |-> <<>>]
  /\ warnings = NoWarnings
  /\ globPatterns = <<>>
  /\ pathsToGlobKey = [p \in Paths |-> NoOwner]
  /\ globKeyToPaths = [k \in GlobTypeKey |-> {}]
  /\ result = NoResult
  /\ hist = <<>>

Init == InitWith(Scenarios)

Next ==
  \/ mergeConfiguration
  \/ mergeConfigurationReturn
  \/ mergeConfigurationAgain
  \/ MC_Reset
  \/ MC_RootImport
  \/ MC_Inputs
  \/ MC_Structures
  \/ MC_Collections
  \/ MC_Collection
  \/ MC_CollectionScope
  \/ MC_Schemas
  \/ MC_Schema
  \/ MC_SchemaScope
  \/ MC_Snippets
  \/ MC_SnippetList
  \/ MC_Snippet
  \/ MC_SnippetScope
  \/ MC_Return
  \/ PIK_Start
  \/ PIK_Input
  \/ PIK_Values
  \/ PIK_SpawnValue
  \/ PIK_AwaitValues
  \/ PSK_Start
  \/ PSK_SpawnStructure
  \/ PSK_AwaitStructures
  \/ PSK_Return
  \/ STR_Start
  \/ STR_Values
  \/ STR_SpawnValue
  \/ STR_AwaitValues
  \/ STR_Return
  \/ PSV_Start
  \/ PSV_Inputs
  \/ PSV_Return
  \/ IFG_Start
  \/ LFG_Cycle
  \/ LFG_Conflict
  \/ LFG_Claim
  \/ LFG_Return
  \/ LFG_Loaded
  \/ LFG_Caught
  \/ IFG_Merge
  \/ Await
  \/ \E t \in DOMAIN tasks : LoadResolves(t)
  \/ \E t \in DOMAIN tasks : LoadRejects(t)
  \/ Resume

Spec == Init /\ [][Next]_vars

\* the event loop runs every continuation that is ready, and the
\* collaborators settle every promise they return
FairSpec == InitWith(CyclicScenarios) /\ [][Next]_vars /\ WF_vars(Next)

Done == phase = "done"


\* ----------------------------------------------------------- the history
Events(kinds) == {hist[n] : n \in {m \in 1..Len(hist) : hist[m].e \in kinds}}
Merges == Events({"merge"})
Globs == Events({"glob"})
Resolutions == Events({"cycle", "conflict", "claim"})
Positions(kinds) == {n \in 1..Len(hist) : hist[n].e \in kinds}
Sources(m) == {m.loaded[n].source : n \in 1..Len(m.loaded)}

\* the cap on loadConfigFile calls never stops a run
CapNeverBinds == ~(AtFile /\ ~InVisited /\ ~OwnedByOther /\ NumLoads >= MaxLoads)

\* ------------------------------------------------------------------ C1
\* C1: mergeConfiguration never mutates the configuration tree of the
\* caller: in every state of every run it equals the tree that was passed in.
C1_InputNeverMutated == mem["caller"] = env.base

\* a run has returned a tree that differs from the input
C1_Witness ==
  /\ phase = "done"
  /\ result.config # env.base
  /\ Merges # {}

\* ------------------------------------------------------------------ C2
Definers(m, k) == {n \in 1..Len(m.loaded) : HasKey(m.loaded[n].data, k)}
FragmentKeys(m) ==
  UNION {Range(Keys(m.loaded[n].data)) : n \in {x \in 1..Len(m.loaded) : isObject(m.loaded[x].data)}}
\* the fragment of the path sorted last among those that define k
LastDefiner(m, k) ==
  m.loaded[CHOOSE n \in Definers(m, k) :
             \A o \in Definers(m, k) : PathRank[m.loaded[o].source] <= PathRank[m.loaded[n].source]]
ExpectedValue(m, k) ==
  LET f == LastDefiner(m, k)
      v == Get(f.data, k)
  IN IF isObject(v) THEN Put(v, "__source__", Str(f.source)) ELSE v

\* C2: after an object merge every key defined by fragments holds the value
\* of the fragment whose path sorts last among them, stamped with that path
\* and nothing of the base value or of earlier fragments; for a root-level
\* key the returned tree carries that provenance.
C2_LastPathWins ==
  /\ \A m \in {x \in Merges : ~x.isArray} :
       \A k \in FragmentKeys(m) : Get(m.merged, k) = ExpectedValue(m, k)
  /\ phase = "done" =>
       \A m \in {x \in Merges : ~x.isArray /\ x.loc = <<>>} :
         \A k \in FragmentKeys(m) :
           isObject(ExpectedValue(m, k)) =>
             Get(Get(Get(result.config, m.target), k), "__source__") = Str(LastDefiner(m, k).source)

\* two fragments and the base define the same key, and the collaborator
\* returned the two paths in descending order
C2_Witness ==
  /\ phase = "done"
  /\ \E m \in {x \in Merges : ~x.isArray} :
       \E k \in FragmentKeys(m) :
         /\ Cardinality(Definers(m, k)) >= 2
         /\ HasKey(m.old, k)
         /\ isObject(ExpectedValue(m, k))
         /\ \E g \in Globs : g.loc = m.loc /\ g.key = m.key /\ g.found # g.files

\* ------------------------------------------------------------------ C3
KeysOf(p) == {h.key : h \in {x \in Resolutions : x.path = p}}
FirstKey(p) == hist[CHOOSE n \in Positions({"cycle", "conflict", "claim"}) :
                      /\ hist[n].path = p
                      /\ \A o \in Positions({"cycle", "conflict", "claim"}) :
                           hist[o].path = p => n <= o].key
OtherKey(p) == CHOOSE k \in KeysOf(p) : k # FirstKey(p)
MultipleFor(p) == {n \in 1..Len(result.warnings.multipleGlobKeys) :
                     result.warnings.multipleGlobKeys[n].path = p}
MergedUnder(p) == {m.key : m \in {x \in Merges : p \in Sources(x)}}
ResolvedOutsideChain(p, k) ==
  \E h \in Resolutions : h.path = p /\ h.key = k /\ p \notin Range(h.chain)
TheConflict(p) == [path |-> p, type1 |-> FirstKey(p), type2 |-> OtherKey(p)]

\* C3 as stated: a path resolved under two different reference keys has
\* exactly one multipleGlobKeys diagnostic and is merged under the first only.
C3_Original ==
  phase = "done" =>
    \A p \in Paths :
      Cardinality(KeysOf(p)) = 2 =>
        /\ Cardinality(MultipleFor(p)) = 1
        /\ \A n \in MultipleFor(p) : result.warnings.multipleGlobKeys[n] = TheConflict(p)
        /\ MergedUnder(p) \subseteq {FirstKey(p)}

\* C3: a path resolved under two different reference keys is merged under
\* the first claiming key only; it has exactly one multipleGlobKeys diagnostic
\* (type1 the first key, type2 the later key) when some resolution under the
\* later key finds it outside the active visitation chain, and none when
\* every such resolution finds it in the chain.
C3_OneConflictOutsideChain ==
  phase = "done" =>
    \A p \in Paths :
      Cardinality(KeysOf(p)) = 2 =>
        /\ result.pathsToGlobKey[p] = FirstKey(p)
        /\ Cardinality(MultipleFor(p)) = IF ResolvedOutsideChain(p, OtherKey(p)) THEN 1 ELSE 0
        /\ \A n \in MultipleFor(p) : result.warnings.multipleGlobKeys[n] = TheConflict(p)
        /\ MergedUnder(p) \subseteq {FirstKey(p)}

\* a file was resolved under two keys, merged under the first and
\* reported once for the second
C3_Witness ==
  /\ phase = "done"
  /\ \E p \in Paths :
       /\ Cardinality(KeysOf(p)) = 2
       /\ Cardinality(MultipleFor(p)) = 1
       /\ MergedUnder(p) = {FirstKey(p)}
       /\ Cardinality({n \in Positions({"conflict"}) : hist[n].path = p}) >= 2

\* ------------------------------------------------------------------ C4
Cycles == result.warnings.cycles
CyclesFor(f) == {n \in 1..Len(Cycles) : Cycles[n].path = f}
InputStructuresSuffix(x) == <<K("_inputs"), K(x), K("options"), K("structures")>>
\* resolutions of values_from_glob in the nested options of a structure
\* value that was loaded from f through a values reference and that resolve
\* to f again
SelfRefs ==
  {r \in [g : {x \in Globs : x.key = "values_from_glob" /\ Len(x.loc) >= 6}, f : Paths] :
     LET loc == r.g.loc
         n == Len(loc)
         valueLoc == SubSeq(loc, 1, n - 4)
     IN /\ IsKeyStep(loc[n - 2])
        /\ SubSeq(loc, n - 3, n) = InputStructuresSuffix(loc[n - 2].k)
        /\ valueLoc[n - 5] = K("values")
        /\ ~IsKeyStep(valueLoc[n - 4])
        /\ Get(GetAt(Cfg, valueLoc), "__source__") = Str(r.f)
        /\ r.f \in Range(r.g.files)}
NotLoadedAgain(r) ==
  /\ \A h \in Events({"claim", "load"}) : ~(h.loc = r.g.loc /\ h.path = r.f)
  /\ \A m \in Merges : m.loc = r.g.loc => r.f \notin Sources(m)

\* C4 as stated: such a self reference leaves exactly one cycles diagnostic
\* whose path is f, its chain contains f, and f is not loaded again.
C4_Original ==
  phase = "done" =>
    \A r \in SelfRefs :
      /\ Cardinality(CyclesFor(r.f)) = 1
      /\ \A n \in CyclesFor(r.f) : r.f \in Range(Cycles[n].chain)
      /\ NotLoadedAgain(r)

\* C4: a structure value loaded from f whose nested options resolve to f
\* again leaves at least one cycles diagnostic whose path is f, exactly one
\* for each chain with which the nested resolution found f, every such
\* chain contains f, and f is neither loaded nor merged at the nested location.
C4_OnePerChain ==
  phase = "done" =>
    \A r \in SelfRefs :
      /\ \E h \in Events({"cycle"}) : h.loc = r.g.loc /\ h.path = r.f
      /\ \A h \in Events({"cycle"}) :
           (h.loc = r.g.loc /\ h.path = r.f) =>
             /\ Cardinality({n \in CyclesFor(r.f) : Cycles[n].chain = h.chain}) = 1
             /\ r.f \in Range(h.chain)
      /\ \A n \in CyclesFor(r.f) : r.f \in Range(Cycles[n].chain)
      /\ NotLoadedAgain(r)

\* a self reference was met and the run ended with two cycles diagnostics
\* for the same path
C4_Witness ==
  /\ phase = "done"
  /\ \E r \in SelfRefs : Cardinality(CyclesFor(r.f)) = 2

\* ------------------------------------------------------------------ C5
\* the __source__ of every object on the way from the root to loc
SourcesAlong(tree, loc) ==
  {p \in Paths : \E n \in 0..Len(loc) :
     Get(GetAt(tree, SubSeq(loc, 1, n)), "__source__") = Str(p)}

\* C5 as stated: a cycles diagnostic names a path only when the location
\* that referenced it was reached by expanding the content of that path.
C5_OnlyCausalChain ==
  \A h \in Events({"cycle"}) : h.path \in SourcesAlong(Cfg, h.loc)

\* ------------------------------------------------------------------ C6
ArrayLoaded == {p \in Paths : /\ IsArray(env.files[p])
                              /\ \E h \in Events({"load"}) : h.path = p /\ h.out # "fail"}
RECURSIVE Occurs(_, _)
Occurs(v, tree) ==
  \/ tree = v
  \/ /\ tree.t \in {"obj", "arr"}
     /\ \E n \in 1..Len(tree.e) :
          Occurs(v, IF tree.t = "obj" THEN tree.e[n].v ELSE tree.e[n])
Failed(h) == \E l \in Events({"load"}) :
               l.path = h.path /\ l.loc = h.loc /\ l.key = h.key /\ l.out = "fail"

\* C6: a file whose content is an array leaves exactly one arrayValues
\* diagnostic, nothing of it reaches the result, and every other file of the
\* same resolution that loaded an object is merged.
C6_ArrayFileSkipped ==
  phase = "done" =>
    /\ \A p \in ArrayLoaded :
         /\ Cardinality({n \in 1..Len(result.warnings.arrayValues) :
                           result.warnings.arrayValues[n].path = p}) = 1
         /\ \A m \in Merges : p \notin Sources(m)
         /\ ~Occurs(Mark(p), result.config)
         /\ ~Occurs(Str(p), result.config)
    /\ \A h \in Events({"claim"}) :
         (isObject(env.files[h.path]) /\ ~Failed(h)) =>
           \E m \in Merges : m.loc = h.loc /\ m.key = h.key /\ h.path \in Sources(m)

\* an array file and an object file were resolved by the same reference
\* and the object file was merged
C6_Witness ==
  /\ phase = "done"
  /\ \E p \in ArrayLoaded : \E m \in Merges :
       /\ p \in Range(m.files)
       /\ Sources(m) # {}
       /\ \E n \in 1..Len(result.warnings.arrayValues) : result.warnings.arrayValues[n].path = p

\* ------------------------------------------------------------------ C7
AllFailed(m) ==
  /\ m.files # <<>>
  /\ \A q \in Range(m.files) :
       \E l \in Events({"load"}) : l.path = q /\ l.loc = m.loc /\ l.key = m.key /\ l.out = "fail"
Count(kinds) == Cardinality(Positions(kinds))
ArrayLoads == {n \in Positions({"load"}) : hist[n].out # "fail" /\ IsArray(env.files[hist[n].path])}
\* nothing is recorded for a failure and the run goes on
FailureIsSilent ==
  /\ \A l \in {x \in Events({"load"}) : x.out = "fail"} :
       \A m \in Merges : (m.loc = l.loc /\ m.key = l.key) => l.path \notin Sources(m)
  /\ Len(warnings.cycles) = Count({"cycle"})
  /\ Len(warnings.multipleGlobKeys) = Count({"conflict"})
  /\ Len(warnings.arrayValues) = Cardinality(ArrayLoads)
  /\ \A g \in Globs : \A q \in Range(g.files) :
       \E h \in Resolutions : h.path = q /\ h.loc = g.loc /\ h.key = g.key
  /\ \A n \in 1..Len(RootCalls) :
       IsArray(Get(env.base, RootCalls[n].globKey)) =>
         \E g \in Globs : g.loc = <<>> /\ g.key = RootCalls[n].globKey

\* C7 as stated: when loading fails the target key holds exactly what the
\* base held, nothing is recorded and the remaining paths and keys are
\* processed.
C7_Original ==
  phase = "done" =>
    /\ \A m \in Merges : AllFailed(m) => m.merged = m.old
    /\ FailureIsSilent

\* C7: when every path of a reference fails to load, the target key holds
\* what the base held, or an empty object or list when the base had no such
\* key; the failing path contributes nothing, no diagnostic is recorded for
\* it, and the remaining paths and the later reference keys are processed.
C7_FailureSkipsFile ==
  phase = "done" =>
    /\ \A m \in Merges :
         AllFailed(m) =>
           m.merged = IF Truthy(m.old) THEN m.old
                      ELSE IF m.isArray THEN Arr(<<>>) ELSE Obj(<<>>)
    /\ FailureIsSilent

\* the only path of a reference failed to load where the base had no
\* target key, and a later reference was resolved
C7_Witness ==
  /\ phase = "done"
  /\ \E n \in Positions({"merge"}) :
       /\ AllFailed(hist[n])
       /\ hist[n].old = Undef
       /\ \E o \in Positions({"claim"}) : o > n

\* ------------------------------------------------------------------ C8
\* the locations of the objects of a tree
RECURSIVE LocsIn(_, _)
LocsIn(tree, loc) ==
  IF tree.t = "obj"
    THEN {loc} \cup UNION {LocsIn(tree.e[n].v, Append(loc, K(tree.e[n].k))) : n \in 1..Len(tree.e)}
  ELSE IF tree.t = "arr"
    THEN UNION {LocsIn(tree.e[n], Append(loc, Ix(n))) : n \in 1..Len(tree.e)}
  ELSE {}

Scopes == {"root", "collection", "schema", "snippet"}
\* what the schema has at a location
RECURSIVE Kind(_)
Kind(loc) ==
  LET n == Len(loc)
      up1 == Kind(SubSeq(loc, 1, n - 1))
      up2 == Kind(SubSeq(loc, 1, n - 2))
  IN IF n = 0 THEN "root"
     ELSE IF ~IsKeyStep(loc[n]) THEN (IF up1 = "values" THEN "value" ELSE "other")
     ELSE IF n >= 2 /\ loc[n - 1] = K("collections_config") /\ up2 = "root" THEN "collection"
     ELSE IF n >= 2 /\ loc[n - 1] = K("schemas") /\ up2 = "collection" THEN "schema"
     ELSE IF n >= 2 /\ loc[n - 1] = K("_snippets") /\ up2 = "root" THEN "snippet"
     ELSE IF n >= 2 /\ loc[n - 1] = K("_structures") /\ up2 \in Scopes THEN "structure"
     ELSE IF loc[n] = K("_inputs") /\ up1 \in Scopes \cup {"value"} THEN "inputs"
     ELSE IF up1 = "inputs" THEN "input"
     ELSE IF loc[n] = K("options") /\ up1 = "input" THEN "options"
     ELSE IF loc[n] = K("structures") /\ up1 = "options" THEN "input_structures"
     ELSE IF loc[n] = K("values") /\ up1 \in {"structure", "input_structures"} THEN "values"
     ELSE "other"

\* the reference keys the schema recognises at a location of that kind
RecognisedKeys(kind) ==
  CASE kind = "root" -> {"_snippets_from_glob", "_snippets_imports_from_glob",
                         "_snippets_templates_from_glob", "_snippets_definitions_from_glob",
                         "collections_config_from_glob", "_inputs_from_glob",
                         "_structures_from_glob", "_editables_from_glob"}
    [] kind = "collection" -> {"schemas_from_glob", "_inputs_from_glob", "_structures_from_glob"}
    [] kind \in {"schema", "snippet"} -> {"_inputs_from_glob", "_structures_from_glob"}
    [] kind \in {"structure", "input_structures"} -> {"values_from_glob"}
    [] kind = "value" -> {"_inputs_from_glob"}
    [] OTHER -> {}

\* C8 as stated: the returned tree has no reference key at any location
\* where the schema recognises that key.
C8_NoReferenceKeyLeft ==
  phase = "done" =>
    \A loc \in LocsIn(result.config, <<>>) :
      \A k \in RecognisedKeys(Kind(loc)) : ~HasKey(GetAt(result.config, loc), k)

\* ------------------------------------------------------------------ C9
\* C9 as stated: each of the ten reference keys that the base tree holds
\* with a list of patterns at its location is resolved through
\* findFilesMatchingGlobs and merged into its target key.
C9_EveryGlobKeyResolved ==
  phase = "done" =>
    \A loc \in LocsIn(env.base, <<>>) :
      \A k \in RecognisedKeys(Kind(loc)) :
        IsArray(Get(GetAt(env.base, loc), k)) =>
          /\ \E g \in Globs : g.key = k /\ g.loc = loc
          /\ \E m \in Merges : m.key = k /\ m.loc = loc /\ m.target = TargetOf[k]

\* ----------------------------------------------------------------- C10
\* C10: under FairSpec every run returns a result, also when files refer to
\* themselves or to each other in a cycle.
C10_Terminates == <>(phase = "done")

\* a run returned after a file reached through another file referred back
\* to the first one
C10_Witness ==
  /\ phase = "done"
  /\ \E h \in Events({"cycle"}) :
       /\ Len(h.loc) >= 14
       /\ Len(h.chain) >= 2
       /\ h.path = h.chain[1]

\* ----------------------------------------------------------------- C11
Negated(g) == {q \in Range(GlobStrings(g.raw)) : startsWithBang(q)}
NonNegated(g) == {q \in Range(GlobStrings(g.raw)) : ~startsWithBang(q)}
SameResolution(g, h) == g.loc = h.loc /\ g.key = h.key

\* C11: every resolved reference key hands its whole pattern list, with the
\* negations, to findFilesMatchingGlobs exactly once; the returned
\* globPatterns holds exactly the patterns of all resolved keys that do not
\* start with '!', each once.
C11_PatternsPassedAndTracked ==
  /\ \A n \in Positions({"glob"}) :
       /\ hist[n].passed = hist[n].raw
       /\ \A q \in Negated(hist[n]) : PatternMatches(q) \cap Range(hist[n].files) = {}
       /\ \A o \in Positions({"glob"}) : SameResolution(hist[n], hist[o]) => n = o
  /\ phase = "done" =>
       /\ \A m \in Merges : \E g \in Globs : SameResolution(g, m)
       /\ Range(result.globPatterns) = UNION {NonNegated(g) : g \in Globs}
       /\ \A n, o \in 1..Len(result.globPatterns) :
            result.globPatterns[n] = result.globPatterns[o] => n = o

\* a run resolved a list with a negation, a list that came with a fragment,
\* and the same pattern under two references
C11_Witness ==
  /\ phase = "done"
  /\ \E g \in Globs : Negated(g) # {} /\ NonNegated(g) # {}
  /\ \E g \in Globs : Len(g.loc) >= 6
  /\ \E g, h \in Globs : ~SameResolution(g, h) /\ NonNegated(g) \cap NonNegated(h) # {}

\* ----------------------------------------------------------------- C12
RECURSIVE HasReferenceKey(_)
HasReferenceKey(tree) ==
  \/ tree.t = "obj" /\ \E n \in 1..Len(tree.e) :
       tree.e[n].k \in GlobTypeKey \/ HasReferenceKey(tree.e[n].v)
  \/ tree.t = "arr" /\ \E n \in 1..Len(tree.e) : HasReferenceKey(tree.e[n])
RECURSIVE HasUndefined(_)
HasUndefined(tree) ==
  \/ tree.t = "obj" /\ \E n \in 1..Len(tree.e) :
       tree.e[n].v = Undef \/ HasUndefined(tree.e[n].v)
  \/ tree.t = "arr" /\ \E n \in 1..Len(tree.e) :
       tree.e[n] = Undef \/ HasUndefined(tree.e[n])
\* nothing was asked of the collaborators and nothing was recorded
NothingResolved ==
  /\ hist = <<>>
  /\ result.warnings = NoWarnings
  /\ result.globPatterns = <<>>
  /\ \A p \in Paths : result.pathsToGlobKey[p] = NoOwner

ArrayMerges == {m \in Merges : m.isArray}
BaseElements(m) == IF Truthy(m.old) THEN m.old.e ELSE <<>>
Contribution(f) == IF isObject(f.data) THEN Put(f.data, "__source__", Str(f.source)) ELSE f.data

\* C13: an array merge leaves the base elements where they were and
\* appends one element per loaded file in sorted path order, each keyed
\* structure carrying the path of its file as __source__; the returned
\* values list has these elements in this order.
C13_ArrayMergeAppends ==
  /\ \A m \in ArrayMerges :
       LET b == BaseElements(m)
       IN /\ Len(m.merged.e) = Len(b) + Len(m.loaded)
          /\ SubSeq(m.merged.e, 1, Len(b)) = b
          /\ \A n \in 1..Len(m.loaded) : m.merged.e[Len(b) + n] = Contribution(m.loaded[n])
          /\ \A n, o \in 1..Len(m.loaded) :
               n < o => PathRank[m.loaded[n].source] < PathRank[m.loaded[o].source]
  /\ phase = "done" =>
       \A m \in ArrayMerges :
         LET final == Get(GetAt(result.config, m.loc), m.target)
         IN /\ IsArray(final)
            /\ Len(final.e) = Len(m.merged.e)
            /\ \A n \in 1..Len(final.e) :
                 /\ Get(final.e[n], "__source__") = Get(m.merged.e[n], "__source__")
                 /\ Get(final.e[n], "label") = Get(m.merged.e[n], "label")

\* a list with a base element received two files that the collaborator
\* returned in descending order
C13_Witness ==
  /\ phase = "done"
  /\ \E m \in ArrayMerges :
       /\ Len(BaseElements(m)) >= 1
       /\ Len(m.loaded) >= 2
       /\ \E g \in Globs : SameResolution(g, m) /\ g.found # g.files

\* ----------------------------------------------------------------- C14
LoadedUnder(k) ==
  {l.path : l \in {x \in Events({"load"}) : x.key = k /\ x.out # "fail"}}

\* C14 as stated: on return globKeyToPaths[k] is exactly the set of paths
\* for which loadConfigFile was called under k and did not fail.
C14_OnlySuccessfulLoads ==
  phase = "done" =>
    \A k \in GlobTypeKey : result.globKeyToPaths[k] = LoadedUnder(k)

\* ----------------------------------------------------------------- C15
OwnershipKept ==
  \A p \in Paths : pathsToGlobKey[p] # NoOwner => pathsToGlobKey'[p] = pathsToGlobKey[p]
MergedUnderOwner ==
  \A m \in Merges : \A p \in Sources(m) : pathsToGlobKey[p] = m.key
OneClaimingKey ==
  \A c, d \in Events({"claim"}) : c.path = d.path => c.key = d.key

\* C15: in every state and under every interleaving of the loads, every
\* fragment was merged under the key that owns its path and no path was
\* claimed by two different keys; no step of a call changes the owner of a
\* path that has one (a later call has a loader and a map of its own).
C15_FirstClaimWins ==
  [](MergedUnderOwner /\ OneClaimingKey) /\ [][phase' # "init" => OwnershipKept]_vars

\* two structures were expanded concurrently, one claimed a path and the
\* other was refused the same path under another key
C15_Witness ==
  /\ phase = "done"
  /\ \E c \in Events({"claim"}) : \E h \in Events({"conflict"}) :
       /\ c.path = h.path
       /\ Len(c.loc) >= 4 /\ Len(h.loc) >= 4
       /\ c.loc[2] # h.loc[2]
       /\ \E m \in Merges : c.path \in Sources(m)

\* ----------------------------------------------------------------- C16
\* the identity of a diagnostic, per list
CycleKey(w) == <<w.path, w.chain>>
MultipleKey(w) == <<w.path, w.type1, w.type2>>
ArrayValueKey(w) == <<w.path>>

KeysIn(ws, KeyOf(_)) == {KeyOf(ws[n]) : n \in 1..Len(ws)}
FirstAt(ws, KeyOf(_), k) ==
  CHOOSE n \in 1..Len(ws) : KeyOf(ws[n]) = k /\ \A m \in 1..(n - 1) : KeyOf(ws[m]) # k

\* out has one entry per identity recorded in raw, in order of first occurrence
Deduplicated(raw, out, KeyOf(_)) ==
  /\ \A n, m \in 1..Len(out) : KeyOf(out[n]) = KeyOf(out[m]) => n = m
  /\ KeysIn(out, KeyOf) = KeysIn(raw, KeyOf)
  /\ \A n, m \in 1..Len(out) :
       n < m => FirstAt(raw, KeyOf, KeyOf(out[n])) < FirstAt(raw, KeyOf, KeyOf(out[m]))

\* C16: the returned lists hold exactly one entry per (path, chain) cycle,
\* per (path, type1, type2) conflict and per array-valued path recorded
\* during the run, ordered by first occurrence.
C16_DiagnosticsDeduplicated ==
  phase = "done" =>
    /\ Deduplicated(warnings.cycles, result.warnings.cycles, CycleKey)
    /\ Deduplicated(warnings.multipleGlobKeys, result.warnings.multipleGlobKeys, MultipleKey)
    /\ Deduplicated(warnings.arrayValues, result.warnings.arrayValues, ArrayValueKey)

\* a run that recorded the same conflict more than once and returned two
\* distinct conflicts
C16_Witness ==
  /\ phase = "done"
  /\ Len(result.warnings.multipleGlobKeys) >= 2
  /\ Len(result.warnings.multipleGlobKeys) < Len(warnings.multipleGlobKeys)

\* ----------------------------------------------------------------- C17
\* what a merge placed into its target: the value v of file f, as placed
Placements(m) ==
  IF m.isArray
  THEN {[v |-> m.loaded[n].data, placed |-> m.merged.e[Len(BaseElements(m)) + n],
         path |-> m.loaded[n].source] : n \in 1..Len(m.loaded)}
  ELSE {[v |-> Get(LastDefiner(m, k).data, k), placed |-> Get(m.merged, k),
         path |-> LastDefiner(m, k).source] : k \in FragmentKeys(m)}

Provenance(x) ==
  IF isObject(x.v)
  THEN /\ isObject(x.placed)
       /\ Get(x.placed, "__source__") = Str(x.path)
       /\ Cardinality({n \in 1..Len(x.placed.e) : x.placed.e[n].k = "__source__"}) = 1
       /\ Del(x.placed, "__source__") = Del(x.v, "__source__")
  ELSE x.placed = x.v

\* C17: every keyed structure a merge placed carries exactly one
\* __source__, the path of its file, whatever __source__ the file gave it,
\* and is otherwise the file's value; every other value is placed unchanged.
C17_PlacedValuesCarrySource == \A m \in Merges : \A x \in Placements(m) : Provenance(x)

\* one run placed a keyed structure whose file gave it another __source__
\* and a primitive value
C17_Witness ==
  /\ phase = "done"
  /\ \E m \in Merges : \E x \in Placements(m) :
       ~m.isArray /\ isObject(x.v) /\ HasKey(x.v, "__source__") /\ Get(x.v, "__source__") # Str(x.path)
  /\ \E m \in Merges : \E x \in Placements(m) : ~isObject(x.v)

\* ----------------------------------------------------------------- C18
Conflicts == Events({"conflict"})
\* the patterns of a resolution that match path p
Matching(g, p) ==
  {n \in 1..Len(GlobStrings(g.raw)) :
     ~startsWithBang(GlobStrings(g.raw)[n]) /\ p \in PatternMatches(GlobStrings(g.raw)[n])}

\* C18: every recorded and every returned multipleGlobKeys entry names two
\* different keys, the entries are exactly the refusals of a path owned by
\* another key, and a path found again under the key that owns it is never
\* refused: it is claimed again or cut as a cycle.
C18_SameKeyNeverConflicts ==
  /\ \A n \in 1..Len(warnings.multipleGlobKeys) :
       warnings.multipleGlobKeys[n].type1 # warnings.multipleGlobKeys[n].type2
  /\ phase = "done" =>
       \A n \in 1..Len(result.warnings.multipleGlobKeys) :
         result.warnings.multipleGlobKeys[n].type1 # result.warnings.multipleGlobKeys[n].type2
  /\ Len(warnings.multipleGlobKeys) = Cardinality(Positions({"conflict"}))
  /\ \A h \in Conflicts : h.owner # h.key /\ h.owner # NoOwner

\* one key claimed the same path at two locations, the second time through
\* two overlapping patterns of one list, and the run also recorded a conflict
C18_Witness ==
  /\ phase = "done"
  /\ Len(warnings.multipleGlobKeys) >= 1
  /\ \E c, d \in Events({"claim"}) :
       /\ c.path = d.path /\ c.key = d.key /\ c.loc # d.loc
       /\ \E g \in Globs : SameResolution(g, d) /\ Cardinality(Matching(g, d.path)) >= 2
       /\ \A h \in Conflicts : h.path # c.path

\* ----------------------------------------------------------------- C19
\* what merge m placed, and where
Placed(m) ==
  IF m.isArray
  THEN {[loc |-> m.loc \o << K(m.target), Ix(Len(BaseElements(m)) + n) >>,
         v |-> m.merged.e[Len(BaseElements(m)) + n]] : n \in 1..Len(m.loaded)}
  ELSE {[loc |-> m.loc \o << K(m.target), K(k) >>, v |-> Get(m.merged, k)] : k \in FragmentKeys(m)}

\* a reference key k with a list of patterns in the object at rel of the
\* placed value x
RefAt(x, rel, k) ==
  IF IsArray(Get(GetAt(x.v, rel), k))
  THEN {[loc |-> x.loc \o rel, key |-> k, raw |-> Get(GetAt(x.v, rel), k)]}
  ELSE {}

\* the reference keys that arrived with the fragments of merge m
ArrivedRefs(m) ==
  UNION { CASE m.key = "collections_config_from_glob" ->
                 RefAt(x, <<>>, "schemas_from_glob") \cup RefAt(x, <<>>, "_inputs_from_glob")
                 \cup RefAt(x, <<>>, "_structures_from_glob")
            [] m.key = "_structures_from_glob" -> RefAt(x, <<>>, "values_from_glob")
            [] m.key = "values_from_glob" -> RefAt(x, <<>>, "_inputs_from_glob")
            [] m.key = "_inputs_from_glob" ->
                 RefAt(x, << K("options"), K("structures") >>, "values_from_glob")
            [] OTHER -> {}
          : x \in Placed(m) }

ResolvedInRun(r) ==
  /\ \E g \in Globs : g.loc = r.loc /\ g.key = r.key /\ g.raw = r.raw
  /\ \E m \in Merges : m.loc = r.loc /\ m.key = r.key /\ m.target = TargetOf[r.key]
  /\ ~HasKey(GetAt(result.config, r.loc), r.key)
  /\ {q \in Range(GlobStrings(r.raw)) : ~startsWithBang(q)} \subseteq Range(result.globPatterns)

\* C19 as stated: every reference key that arrived inside a merged fragment
\* at one of the four nested places is resolved and merged in the same run,
\* and its non-negated patterns are in the returned globPatterns.
C19_ArrivedKeysResolved ==
  phase = "done" => \A m \in Merges : \A r \in ArrivedRefs(m) : ResolvedInRun(r)

\* ----------------------------------------------------------------- C20
RootOrder == << "_snippets_from_glob", "_snippets_imports_from_glob", "_snippets_templates_from_glob",
                "_snippets_definitions_from_glob", "collections_config_from_glob",
                "_inputs_from_glob", "_structures_from_glob" >>
RootRank(k) == CHOOSE n \in 1..Len(RootOrder) : RootOrder[n] = k
AtRoot == {n \in 1..Len(hist) : hist[n].loc = <<>>}
RootGlobs == {g \in Globs : g.loc = <<>>}

\* C20: everything done for the root-level keys happens key by key in the
\* order of RootOrder, each key from its glob resolution to its merge, and
\* before anything done at a nested location; a path found by two
\* root-level keys is refused for the later one, with an earlier key as
\* type1, and is never owned by the later one.
C20_RootOrder ==
  /\ \A n \in AtRoot : hist[n].key \in Range(RootOrder)
  /\ \A n, m \in AtRoot :
       n < m => \/ RootRank(hist[n].key) < RootRank(hist[m].key)
                \/ /\ hist[n].key = hist[m].key
                   /\ hist[m].e # "glob"
                   /\ hist[n].e # "merge"
  /\ \A n \in AtRoot : \A m \in 1..Len(hist) : m < n => m \in AtRoot
  /\ \A g, h \in RootGlobs :
       RootRank(g.key) < RootRank(h.key) =>
         \A p \in Range(g.files) \cap Range(h.files) :
           /\ pathsToGlobKey[p] # h.key
           /\ \A c \in Conflicts :
                c.loc = <<>> /\ c.path = p /\ c.key = h.key => RootRank(c.owner) < RootRank(h.key)
           /\ (\E m \in Merges : m.loc = <<>> /\ m.key = h.key) =>
                \E c \in Conflicts : c.loc = <<>> /\ c.path = p /\ c.key = h.key

\* a finished run resolved five root-level keys, refused a path for the
\* later of two of them, and then resolved a nested key
C20_Witness ==
  /\ phase = "done"
  /\ Cardinality({g.key : g \in RootGlobs}) >= 5
  /\ \E c \in Conflicts : c.loc = <<>>
  /\ \E g \in Globs : g.loc # <<>>

\* ----------------------------------------------------------------- C21
\* the positions in the log of what the resolution g did with its paths
PathSteps(g) ==
  {n \in Positions({"cycle", "conflict", "claim", "load"}) : SameResolution(hist[n], g)}
PathStarts(g) ==
  {n \in Positions({"cycle", "conflict", "claim"}) : SameResolution(hist[n], g)}
Ascends(paths) ==
  \A n, m \in 1..Len(paths) : n < m => PathRank[paths[n]] < PathRank[paths[m]]

\* C21: in every resolution the paths are taken in ascending order whatever
\* order the collaborator returned, a path is taken up only after the load
\* of the path before it has settled, whatever other resolutions do in
\* between, and the fragments handed to the merge ascend by path.
C21_OneAtATimeInPathOrder ==
  /\ \A g \in Globs :
       /\ Ascends(g.files)
       /\ Range(g.files) = Range(g.found)
       /\ \A n \in PathSteps(g) : hist[n].path \in Range(g.files)
       /\ \A n, m \in PathSteps(g) : n < m => PathRank[hist[n].path] <= PathRank[hist[m].path]
       /\ \A n, m \in PathStarts(g) :
            n < m => /\ hist[n].path # hist[m].path
                     /\ hist[n].e = "claim" =>
                          \E l \in PathSteps(g) :
                            n < l /\ l < m /\ hist[l].e = "load" /\ hist[l].path = hist[n].path
  /\ \A m \in Merges : Ascends([n \in 1..Len(m.loaded) |-> m.loaded[n].source])

\* the collaborator returned two paths in descending order, and between the
\* claim of the first and the settling of its load another resolution acted
C21_Witness ==
  /\ phase = "done"
  /\ \E g \in Globs :
       /\ g.found # g.files
       /\ \E n, m \in PathStarts(g) : \E l \in PathSteps(g) : \E x \in 1..Len(hist) :
            /\ hist[n].e = "claim" /\ hist[m].e = "claim"
            /\ hist[l].e = "load" /\ hist[l].path = hist[n].path
            /\ n < x /\ x < l /\ l < m
            /\ ~SameResolution(hist[x], g)

\* ----------------------------------------------------------------- C22
\* what the claim compares of a returned result
Outcome(r) ==
  [config |-> r.config,
   cycles |-> Range(r.warnings.cycles),
   multipleGlobKeys |-> Range(r.warnings.multipleGlobKeys),
   arrayValues |-> Range(r.warnings.arrayValues),
   pathsToGlobKey |-> r.pathsToGlobKey,
   globKeyToPaths |-> r.globKeyToPaths]

\* C22 as stated: a call returns the config, diagnostics, pathsToGlobKey
\* and globKeyToPaths that an earlier call with the same base tree and file
\* contents returned, whatever the order in which the loads of the two
\* calls settled, when no load failed in either.
C22_Reproducible ==
  phase = "done" /\ NumFailed = 0 =>
    \A n \in 1..Len(earlier) :
      earlier[n].failed = 0 => Outcome(result) = Outcome(earlier[n].result)

\* ----------------------------------------------------------------- C23
CycleEvents == Events({"cycle"})

\* C23: a path that is in the chain records a cycle and nothing else, also
\* when another key owns it; a conflict is recorded only for a path that is
\* not in the chain; a resolution records at most one diagnostic for a
\* path, and the two lists hold exactly what these two skips recorded.
C23_CycleCheckFirst ==
  /\ \A c \in CycleEvents : c.path \in Range(c.chain)
  /\ \A h \in Conflicts : h.path \notin Range(h.chain)
  /\ \A g \in Globs : \A p \in Paths :
       Cardinality({n \in PathStarts(g) : hist[n].path = p}) <= 1
  /\ Len(warnings.cycles) = Cardinality(Positions({"cycle"}))
  /\ Len(warnings.multipleGlobKeys) = Cardinality(Positions({"conflict"}))
  /\ \A c \in CycleEvents : ~\E h \in Conflicts : SameResolution(h, c) /\ h.path = c.path

\* a structure value loaded from a file under values_from_glob named that
\* same file in its _inputs_from_glob: the path is in the chain and owned
\* by another key
C23_Witness ==
  /\ phase = "done"
  /\ \E c \in CycleEvents :
       /\ c.key = "_inputs_from_glob"
       /\ c.owner = "values_from_glob"
       /\ result.warnings.cycles # <<>>

\* ----------------------------------------------------------------- C24
Skips == Events({"cycle", "conflict"})
\* this step skipped a path
SkipStep ==
  /\ Len(hist') = Len(hist) + 1
  /\ hist'[Len(hist')].e \in {"cycle", "conflict"}
\* what a skipping step leaves as it was: ownership, the path sets, the
\* chains, the fragments collected so far, the trees, and the other lists
SkipFrame ==
  /\ pathsToGlobKey' = pathsToGlobKey
  /\ globKeyToPaths' = globKeyToPaths
  /\ visitedSets' = visitedSets
  /\ tasks'[Head(stack)].loaded = tasks[Head(stack)].loaded
  /\ mem' = mem
  /\ globPatterns' = globPatterns
  /\ warnings'.arrayValues = warnings.arrayValues
  /\ LET s == hist'[Len(hist')]
     IN IF s.e = "cycle"
        THEN /\ warnings'.cycles = Append(warnings.cycles, [path |-> s.path, chain |-> s.chain])
             /\ warnings'.multipleGlobKeys = warnings.multipleGlobKeys
        ELSE /\ warnings'.multipleGlobKeys =
                  Append(warnings.multipleGlobKeys, [path |-> s.path, type1 |-> s.owner, type2 |-> s.key])
             /\ warnings'.cycles = warnings.cycles
\* the n-th cycles diagnostic still holds the chain as it was when recorded
ChainsAreSnapshots ==
  \A n \in Positions({"cycle"}) :
    LET k == Cardinality({m \in Positions({"cycle"}) : m <= n})
    IN /\ k <= Len(warnings.cycles)
       /\ warnings.cycles[k] = [path |-> hist[n].path, chain |-> hist[n].chain]
\* a skipped path is not loaded by that resolution and gives it no fragment
SkippedNotLoaded ==
  \A s \in Skips :
    /\ ~\E l \in Events({"claim", "load"}) : SameResolution(l, s) /\ l.path = s.path
    /\ \A m \in Merges : SameResolution(m, s) => s.path \notin Sources(m)

\* C24: a step that skips a path for a cycle or a conflict adds one entry
\* to one diagnostics list and changes nothing else; the skipped path is
\* not loaded by that resolution and is no fragment of its merge; a cycles
\* diagnostic keeps the chain it was recorded with.
C24_SkipChangesOnlyDiagnostics ==
  [](ChainsAreSnapshots /\ SkippedNotLoaded) /\ [][SkipStep => SkipFrame]_vars

\* a run skipped a path for a cycle, and the chain grew after the
\* diagnostic was recorded
C24_Witness ==
  /\ phase = "done"
  /\ \E c \in CycleEvents : \E v \in DOMAIN visitedSets :
       /\ Len(c.chain) < Len(visitedSets[v])
       /\ SubSeq(visitedSets[v], 1, Len(c.chain)) = c.chain
       /\ \E n \in 1..Len(result.warnings.cycles) : result.warnings.cycles[n].chain = c.chain

\* ----------------------------------------------------------------- C25
\* the location is not inside a structure value
OutsideValues(loc) == \A n \in 1..Len(loc) : IsKeyStep(loc[n])
\* the resolutions of the values-references of top-level structures and
\* inputs, and those of the other reference keys outside structure values
TopValueGlobs == {g \in Globs : OutsideValues(g.loc) /\ g.key = "values_from_glob"}
ScopeGlobs == {g \in Globs : OutsideValues(g.loc) /\ g.key # "values_from_glob"}
EarlierFiles(g, p) == {q \in Range(g.files) : PathRank[q] < PathRank[p]}
ClaimedIn(g) == {hist[n].path : n \in {m \in PathStarts(g) : hist[m].e = "claim"}}
\* this step claimed a path for a key outside the structure values
ScopeClaim ==
  /\ Len(hist') = Len(hist) + 1
  /\ hist'[Len(hist')].e = "claim"
  /\ OutsideValues(hist'[Len(hist')].loc)
  /\ hist'[Len(hist')].key # "values_from_glob"

\* C25: the values-reference of a top-level structure or input starts with
\* an empty chain, which holds only paths this resolution claimed before,
\* so it records no cycle, and a path that one of them claimed is claimed
\* by every other that finds it and is a fragment of its merge when its
\* load gave one; the other reference keys outside structure values run
\* with no chain, record no cycle and add no path to any chain.
C25_ChainsPerSubtree ==
  /\ [](/\ \A g \in TopValueGlobs : \A n \in PathStarts(g) :
             /\ hist[n].e # "cycle"
             /\ Range(hist[n].chain) \subseteq EarlierFiles(g, hist[n].path)
        /\ phase = "done" =>
             \A g, h \in TopValueGlobs :
               \A p \in ClaimedIn(g) \cap Range(h.files) :
                 /\ p \in ClaimedIn(h)
                 /\ \A l \in Events({"load"}) : \A m \in Merges :
                      SameResolution(l, h) /\ SameResolution(m, h) /\ l.path = p /\ l.out = "ok"
                        => p \in Sources(m)
        /\ \A g \in ScopeGlobs : \A n \in PathStarts(g) :
             hist[n].e # "cycle" /\ hist[n].chain = <<>>)
  /\ [][ScopeClaim => visitedSets' = visitedSets]_vars

\* two structures resolved the same file and both merged it, and the run
\* recorded no cycle
C25_Witness ==
  /\ phase = "done"
  /\ warnings.cycles = <<>>
  /\ \E m, o \in Merges :
       /\ m.loc # o.loc
       /\ OutsideValues(m.loc) /\ OutsideValues(o.loc)
       /\ m.key = "values_from_glob" /\ o.key = "values_from_glob"
       /\ Sources(m) \cap Sources(o) # {}

====
